---- MODULE Spec2Model ----
(***************************************************************************)
(* A model of moli: the Structural Editor (yaml_modifier.rs), the          *)
(* Managed-Path Collector (path_collector.rs), the Validator               *)
(* (validator.rs) and the Generation Engine (directory_builder.rs,         *)
(* file_builder.rs, rust/module_generator.rs,                              *)
(* typescript/module_generator.rs, any/file_handler.rs).                   *)
(*                                                                         *)
(* Text is a sequence of lines plus a trailing-newline flag.  A line is a  *)
(* record [ind, k, v]: its indentation, the kind of its trimmed content    *)
(* ("name" for `- name: V`, "from" for `- from: V`, "tree" for `tree:`,    *)
(* "file" for `file:`, "pub"/"lang"/"root" for `pub: V`/`lang: V`/         *)
(* `root: V`, "blank" for an empty line) and its value.  A name is the     *)
(* sequence of its dot-separated parts: <<"model", "rs">> is model.rs.     *)
(* Line indices are 1-based; 0 stands for None.                            *)
(***************************************************************************)
EXTENDS Integers, Sequences, FiniteSets, TLC

VARIABLES text, prev, op, config, verdict, disk, log, pc

vars == <<text, prev, op, config, verdict, disk, log, pc>>

NoVal == <<>>

(***************************************************************************)
(* Lines and text                                                          *)
(***************************************************************************)
Ln(i, k, v) == [ind |-> i, k |-> k, v |-> v]

N(i, name) == Ln(i, "name", <<name>>)

NF(i, base, ext) == Ln(i, "name", <<base, ext>>)

K(i, key) == Ln(i, key, NoVal)

A(i, key, val) == Ln(i, key, val)

Blank == Ln(0, "blank", NoVal)

IsEmptyLine(l) == l.k = "blank"

StartsName(l) == l.k = "name"

StartsPub(l) == l.k = "pub"

IsNameLine(l, name) == l.k = "name" /\ l.v = name

IsKey(l, key) == l.k = key

line_indent(l) == l.ind

Min(S) == CHOOSE x \in S : \A y \in S : x <= y

Max(S) == CHOOSE x \in S : \A y \in S : x >= y

First(S) == IF S = {} THEN 0 ELSE Min(S)

Last(s) == s[Len(s)]

Front(s) == SubSeq(s, 1, Len(s) - 1)

\* `a.join("\n")` read back as text: a final empty line is the trailing newline.
Join(L) ==
    IF Len(L) >= 2 /\ IsEmptyLine(Last(L)) THEN [lines |-> Front(L), nl |-> TRUE]
    ELSE IF Len(L) = 1 /\ IsEmptyLine(L[1]) THEN [lines |-> <<>>, nl |-> FALSE]
    ELSE [lines |-> L, nl |-> FALSE]

\* str::lines()
Lines(t) == t.lines

\* `if yaml_content.ends_with('\n') && !result.ends_with('\n') { result.push('\n') }`
KeepNewline(orig, res) ==
    IF orig.nl /\ ~res.nl
    THEN IF res.lines = <<>> THEN [lines |-> <<Blank>>, nl |-> TRUE]
         ELSE [lines |-> res.lines, nl |-> TRUE]
    ELSE res

\* Vec::insert at the 0-based position pos0.
InsertAt(L, pos0, new) == SubSeq(L, 1, pos0) \o new \o SubSeq(L, pos0 + 1, Len(L))

RemoveRange(L, a, b) == SubSeq(L, 1, a - 1) \o SubSeq(L, b + 1, Len(L))

Ok(t) == [ok |-> TRUE, text |-> t]

Err(what) == [ok |-> FALSE, err |-> what]

\* current_project_index after the loop body's increment at line i.
ProjAt(L, i) == Cardinality({j \in 1..i : StartsName(L[j]) /\ L[j].ind = 0}) - 1

\* The lines after `start` up to (not including) the first non-blank line
\* indented at or below `ind`.
BlockStop(L, start, ind) ==
    LET S == {i \in (start + 1)..Len(L) : ~IsEmptyLine(L[i]) /\ L[i].ind <= ind}
    IN IF S = {} THEN Len(L) + 1 ELSE Min(S)

Block(L, start) == (start + 1)..(BlockStop(L, start, L[start].ind) - 1)

\* The last non-blank line of the block of `start` (start itself if none).
BlockEnd(L, start) ==
    Max({start} \cup {i \in Block(L, start) : ~IsEmptyLine(L[i])})

(***************************************************************************)
(* Removal                                                                 *)
(***************************************************************************)
find_module_start(L, from, name) ==
    First({i \in from..Len(L) : IsNameLine(L[i], name)})

\* `for name in path { match find_module_start(..) { Some(idx) => search_start
\* = idx + 1, None => fail } }`: the final search_start, or 0 on failure.
RECURSIVE WalkPath(_, _, _)
WalkPath(L, from, path) ==
    IF path = <<>> THEN from
    ELSE LET idx == find_module_start(L, from, Head(path))
         IN IF idx = 0 THEN 0 ELSE WalkPath(L, idx + 1, Tail(path))

\* The first path segment that cannot be found (for the error message).
RECURSIVE WalkMissing(_, _, _)
WalkMissing(L, from, path) ==
    LET idx == find_module_start(L, from, Head(path))
    IN IF idx = 0 THEN Head(path) ELSE WalkMissing(L, idx + 1, Tail(path))

find_top_level_module(L, project_index, module_name) ==
    First({i \in 1..Len(L) :
        /\ ProjAt(L, i) = project_index
        /\ \E j \in 1..(i - 1) :
              ProjAt(L, j) = project_index /\ IsKey(L[j], "tree") /\ L[j].ind = 2
        /\ ~(IsKey(L[i], "tree") /\ L[i].ind = 2)
        /\ IsNameLine(L[i], module_name) /\ L[i].ind = 4})

\* match_file_entry that ends the entry at its `- name:` line
match_file_entry_name_only(L, line_index, file_name, expected_indent) ==
    IF L[line_index].ind # expected_indent \/ ~IsNameLine(L[line_index], file_name)
    THEN 0
    ELSE line_index

\* match_file_entry: 0, or the last line of the entry that starts at line_index.
match_file_entry(L, line_index, file_name, expected_indent) ==
    IF L[line_index].ind # expected_indent \/ ~IsNameLine(L[line_index], file_name)
    THEN 0
    ELSE LET stop == First({j \in (line_index + 1)..Len(L) :
                        \/ IsEmptyLine(L[j])
                        \/ ~(L[j].ind > expected_indent /\ ~StartsName(L[j]))})
         IN IF stop = 0 THEN Len(L) ELSE stop - 1

\* in_file_section after line i of a scan that started after `start`: the last
\* line that switched the flag was a `file:` key at `ind`.
InFileSection(L, lo, i, ind, resets) ==
    LET E == {j \in lo..i : (IsKey(L[j], "file") /\ L[j].ind = ind) \/ j \in resets}
    IN E # {} /\ IsKey(L[Max(E)], "file") /\ L[Max(E)].ind = ind

find_project_level_file(L, target) ==
    LET p == target.project_index
        project_indent == 2
        \* the flag is cleared at every project line and by a key at or above
        \* the project's indent; only lines of project p are looked at
        Resets == {j \in 1..Len(L) :
                     /\ ProjAt(L, j) = p
                     /\ \/ StartsName(L[j]) /\ L[j].ind = 0
                        \/ /\ L[j].ind <= project_indent /\ ~IsEmptyLine(L[j])
                           /\ ~StartsName(L[j]) /\ ~StartsPub(L[j])}
        Found(hit) ==
            IF hit = 0 THEN <<0, 0>>
            ELSE <<hit, match_file_entry(L, hit, target.file_name, project_indent + 2)>>
    IN Found(First({i \in 1..Len(L) :
                /\ ProjAt(L, i) = p
                /\ InFileSection(L, 1, i, project_indent, Resets)
                /\ match_file_entry(L, i, target.file_name, project_indent + 2) # 0}))

find_tree_file(L, module_path, file_name) ==
    LET InModule(module_start) ==
            LET module_indent == L[module_start].ind
                fsi == module_indent + 2
                Resets == {j \in 1..Len(L) :
                             /\ L[j].ind = fsi /\ ~IsEmptyLine(L[j])
                             /\ ~StartsName(L[j]) /\ ~StartsPub(L[j])}
                Found(hit) ==
                    IF hit = 0 THEN <<0, 0>>
                    ELSE <<hit, match_file_entry(L, hit, file_name, fsi + 2)>>
            IN Found(First({i \in Block(L, module_start) :
                        /\ InFileSection(L, module_start + 1, i, fsi, Resets)
                        /\ match_file_entry(L, i, file_name, fsi + 2) # 0}))
        After(search_start) ==
            IF search_start = 0 THEN <<0, 0>>
            ELSE InModule(find_module_start(L, search_start - 1, Last(module_path)))
    IN After(WalkPath(L, 1, module_path))

remove_empty_sections(t, section_key) ==
    LET L == Lines(t)
        HasEntries(i) ==
            LET nxt == First({j \in (i + 1)..Len(L) : ~IsEmptyLine(L[j])})
            IN nxt # 0 /\ L[nxt].ind > L[i].ind /\ StartsName(L[nxt])
        kept == {i \in 1..Len(L) : ~(IsKey(L[i], section_key) /\ ~HasEntries(i))}
        RECURSIVE Pick(_)
        Pick(i) == IF i > Len(L) THEN <<>>
                   ELSE (IF i \in kept THEN <<L[i]>> ELSE <<>>) \o Pick(i + 1)
    IN Join(Pick(1))

remove_file_entry(t, target) ==
    LET L == Lines(t)
        Cut(range) ==
            IF range[1] = 0
            THEN Err([what |-> "file entry", name |-> target.file_name])
            ELSE Ok(KeepNewline(t,
                    remove_empty_sections(Join(RemoveRange(L, range[1], range[2])), "file")))
    IN Cut(IF target.is_project_level
           THEN find_project_level_file(L, target)
           ELSE find_tree_file(L, target.module_path, target.file_name))

remove_module_entry(t, target) ==
    LET L == Lines(t)
        module_name == target.file_name
        parent_path == target.module_path
        Cut(module_start) ==
            IF module_start = 0
            THEN Err([what |-> "module", name |-> module_name])
            ELSE Ok(KeepNewline(t,
                    remove_empty_sections(
                        Join(RemoveRange(L, module_start, BlockEnd(L, module_start))),
                        "tree")))
        Nested(walked) ==
            IF walked = 0
            THEN Err([what |-> "parent module", name |-> WalkMissing(L, 1, parent_path)])
            ELSE Cut(find_module_start(L, walked, module_name))
    IN IF parent_path = <<>>
       THEN Cut(find_top_level_module(L, target.project_index, module_name))
       ELSE Nested(WalkPath(L, 1, parent_path))

remove_entry(t, target) ==
    IF target.is_directory THEN remove_module_entry(t, target)
    ELSE remove_file_entry(t, target)

(***************************************************************************)
(* Addition                                                                *)
(***************************************************************************)
\* FilesystemScanner::filename_without_standard_extension
StandardExt(language) ==
    CASE language = "rust" -> "rs"
      [] language = "go" -> "go"
      [] language = "python" -> "py"
      [] language = "typescript" -> "ts"
      [] language = "javascript" -> "js"
      [] OTHER -> ""

filename_without_standard_extension(filename, language) ==
    IF StandardExt(language) = "" THEN filename
    ELSE IF Len(filename) >= 2 /\ Last(filename) = StandardExt(language)
    THEN Front(filename)
    ELSE filename

\* The first line of project number p (0 when there is none).
ProjectLine(L, p) ==
    First({i \in 1..Len(L) : StartsName(L[i]) /\ L[i].ind = 0 /\ ProjAt(L, i) = p})

\* find_project_end, as a 0-based insert position.
find_project_end(L, project_index) ==
    IF ProjectLine(L, project_index + 1) # 0
    THEN ProjectLine(L, project_index + 1) - 1
    ELSE Len(L)

\* The last line of a file entry: the following lines that are deeper and are
\* no `- name:` line, up to a blank line.
EntryEnd(L, i, entry_indent) ==
    LET stop == First({j \in (i + 1)..Len(L) :
                    \/ IsEmptyLine(L[j])
                    \/ ~(L[j].ind > entry_indent /\ ~StartsName(L[j]))})
    IN IF stop = 0 THEN Len(L) ELSE stop - 1

add_top_level_module(L, project_index, module_name) ==
    LET next == ProjectLine(L, project_index + 1)
        P == {i \in 1..Len(L) : ProjAt(L, i) = project_index}
        TreeSeen(i) == \E j \in P : j <= i /\ IsKey(L[j], "tree") /\ L[j].ind = 2
        tree_line == \E j \in P : IsKey(L[j], "tree") /\ L[j].ind = 2
        entries == {i \in P : TreeSeen(i) /\ L[i].ind = 4 /\ StartsName(L[i])}
        Insert(insert_pos) ==
            IF insert_pos >= 0
            THEN Ok(Join(InsertAt(L, insert_pos, <<Ln(4, "name", module_name)>>)))
            ELSE Ok(Join(L))
    IN IF ~tree_line
       THEN Ok(Join(InsertAt(L, find_project_end(L, project_index),
                             <<K(2, "tree"), Ln(4, "name", module_name)>>)))
       ELSE Insert(IF next # 0 THEN next - 1
                   ELSE IF entries # {} THEN BlockEnd(L, Max(entries))
                   ELSE -1)

add_nested_module(L, project_index, parent_segments, module_name) ==
    LET InParent(parent_start, B) ==
            LET parent_indent == L[parent_start].ind
                tree_indent == parent_indent + 2
                entry_indent == parent_indent + 4
                new_line == Ln(entry_indent, "name", module_name)
                Insert(trees) ==
                    LET entries == {i \in B : /\ \E j \in trees : j < i
                                              /\ L[i].ind = entry_indent
                                              /\ StartsName(L[i])}
                    IN IF trees = {}
                       THEN Ok(Join(InsertAt(L, BlockEnd(L, parent_start),
                                             <<K(tree_indent, "tree"), new_line>>)))
                       ELSE IF entries # {}
                       THEN Ok(Join(InsertAt(L, BlockEnd(L, Max(entries)), <<new_line>>)))
                       ELSE Ok(Join(InsertAt(L, Min(trees), <<new_line>>)))
            IN Insert({i \in B : IsKey(L[i], "tree") /\ L[i].ind = tree_indent})
        Walked(from, walked) ==
            IF walked = 0
            THEN Err([what |-> "parent module",
                      name |-> WalkMissing(L, from, parent_segments)])
            ELSE InParent(walked - 1, Block(L, walked - 1))
        From(from) == Walked(from, WalkPath(L, from, parent_segments))
    IN From(IF ProjectLine(L, project_index) = 0 THEN 1
            ELSE ProjectLine(L, project_index))

add_module(t, project_index, parent_segments, module_name) ==
    IF parent_segments = <<>>
    THEN add_top_level_module(Lines(t), project_index, module_name)
    ELSE add_nested_module(Lines(t), project_index, parent_segments, module_name)

module_exists(t, project_index, segments) ==
    LET L == Lines(t)
    IN IF segments = <<>> THEN TRUE
       ELSE IF Len(segments) = 1
       THEN find_top_level_module(L, project_index, segments[1]) # 0
       ELSE LET walked == WalkPath(L, 1, Front(segments))
            IN walked # 0 /\ find_module_start(L, walked, Last(segments)) # 0

\* ensure_tree_path from depth d on (d = 1 is the whole loop).
RECURSIVE EnsureFrom(_, _, _, _)
EnsureFrom(t, project_index, segments, d) ==
    IF d > Len(segments) THEN Ok(t)
    ELSE IF module_exists(t, project_index, SubSeq(segments, 1, d))
    THEN EnsureFrom(t, project_index, segments, d + 1)
    ELSE LET Then(r) ==
                 IF r.ok THEN EnsureFrom(r.text, project_index, segments, d + 1) ELSE r
         IN Then(add_module(t, project_index, SubSeq(segments, 1, d - 1), segments[d]))

ensure_tree_path(t, project_index, segments) == EnsureFrom(t, project_index, segments, 1)

add_file_to_module(t, project_index, module_segments, file_name) ==
    LET L == Lines(t)
        InModule(module_start, B) ==
            LET module_indent == L[module_start].ind
                fsi == module_indent + 2
                fei == module_indent + 4
                new == <<K(fsi, "file"), Ln(fei, "name", file_name)>>
                NewSection(tree_pos) ==
                    IF tree_pos # 0
                    THEN Ok(Join(InsertAt(L, tree_pos - 1, new)))
                    ELSE Ok(Join(InsertAt(L, BlockEnd(L, module_start), new)))
                InsertEntry(files, last_mark) ==
                    Ok(Join(InsertAt(L,
                        IF last_mark \in files THEN last_mark
                        ELSE EntryEnd(L, last_mark, fei),
                        <<Ln(fei, "name", file_name)>>)))
                \* the second scan stops after a `tree:` key that follows the
                \* `file:` key
                Marks(files, cut) ==
                    {i \in (IF cut = 0 THEN B ELSE {k \in B : k <= cut}) :
                        \/ i \in files
                        \/ /\ \E j \in files : j < i
                           /\ L[i].ind = fei /\ StartsName(L[i])}
                Section(files) ==
                    LET exists == \E i \in B : /\ \E j \in files : j < i
                                               /\ L[i].ind = fei
                                               /\ IsNameLine(L[i], file_name)
                    IN IF exists THEN Ok(t)
                       ELSE IF files = {}
                       THEN NewSection(First({i \in B : IsKey(L[i], "tree")
                                                        /\ L[i].ind = fsi}))
                       ELSE InsertEntry(files, Max(Marks(files,
                                First({i \in B : /\ \E j \in files : j <= i
                                                 /\ IsKey(L[i], "tree")
                                                 /\ L[i].ind = fsi}))))
            IN Section({i \in B : IsKey(L[i], "file") /\ L[i].ind = fsi})
        Walked(from, walked) ==
            IF walked = 0
            THEN Err([what |-> "module", name |-> WalkMissing(L, from, module_segments)])
            ELSE InModule(walked - 1, Block(L, walked - 1))
        From(from) == Walked(from, WalkPath(L, from, module_segments))
    IN From(IF ProjectLine(L, project_index) = 0 THEN 1
            ELSE ProjectLine(L, project_index))

add_project_level_file(t, project_index, file_name) ==
    LET L == Lines(t)
        P == {i \in 1..Len(L) : ProjAt(L, i) = project_index}
        files == {i \in P : IsKey(L[i], "file") /\ L[i].ind = 2}
        entries == {i \in P : /\ \E j \in files : j < i
                              /\ L[i].ind = 4 /\ StartsName(L[i])}
        exists == \E i \in entries : IsNameLine(L[i], file_name)
        \* the flag is cleared again at the line of every later project
        file_section_found == files # {} /\ ProjectLine(L, project_index + 1) = 0
        new == <<K(2, "file"), Ln(4, "name", file_name)>>
        NewSection(tree_pos) ==
            IF tree_pos # 0
            THEN Ok(Join(InsertAt(L, tree_pos - 1, new)))
            ELSE Ok(Join(InsertAt(L, find_project_end(L, project_index), new)))
        InsertEntry(last_mark) ==
            Ok(Join(InsertAt(L,
                IF last_mark \in files THEN last_mark ELSE EntryEnd(L, last_mark, 4),
                <<Ln(4, "name", file_name)>>)))
    IN IF exists THEN Ok(t)
       ELSE IF ~file_section_found
       THEN NewSection(First({i \in P : IsKey(L[i], "tree") /\ L[i].ind = 2}))
       ELSE InsertEntry(Max(files \cup entries))

RECURSIVE add_child_recursive(_, _, _, _, _)
RECURSIVE AddChildren(_, _, _, _, _)
\* `for child in children { result = add_child_recursive(&result, ..)? }`
AddChildren(r, project_index, parent_segments, children, language) ==
    IF ~r.ok \/ children = <<>> THEN r
    ELSE AddChildren(
            add_child_recursive(r.text, project_index, parent_segments,
                                Head(children), language),
            project_index, parent_segments, Tail(children), language)

add_child_recursive(t, project_index, parent_segments, child, language) ==
    LET full_path == Append(parent_segments, child.name)
    IN IF child.is_directory
       THEN AddChildren(ensure_tree_path(t, project_index, full_path),
                        project_index, full_path, child.children, language)
       ELSE add_file_to_module(t, project_index, parent_segments,
                filename_without_standard_extension(child.name, language))

add_entry(t, project_index, path_segments, is_directory, language, children) ==
    LET dir_path == Front(path_segments)
        moli_name == filename_without_standard_extension(Last(path_segments), language)
        InModule(ensured) ==
            IF ensured.ok
            THEN add_file_to_module(ensured.text, project_index, dir_path, moli_name)
            ELSE ensured
        Finish(result) ==
            IF result.ok THEN Ok(KeepNewline(t, result.text)) ELSE result
    IN IF path_segments = <<>> THEN Err([what |-> "empty path", name |-> <<>>])
       ELSE Finish(IF is_directory
                   THEN AddChildren(ensure_tree_path(t, project_index, path_segments),
                                    project_index, path_segments, children, language)
                   ELSE IF dir_path = <<>>
                   THEN add_project_level_file(t, project_index, moli_name)
                   ELSE InModule(ensure_tree_path(t, project_index, dir_path)))

(***************************************************************************)
(* The specification document read into the Spec Model (ConfigParser):     *)
(* projects at indentation 0, their keys one level (2 columns) deeper, the *)
(* entries of a `file:` / `tree:` key one level below the key, an entry's  *)
(* own keys one level below its `- `.  Any other layout is a parse error.  *)
(***************************************************************************)
None == <<>>

RECURSIVE SeqOfSet(_)
SeqOfSet(S) == IF S = {} THEN <<>> ELSE <<Min(S)>> \o SeqOfSet(S \ {Min(S)})

NonBlank(L) == SelectSeq(L, LAMBDA l : ~IsEmptyLine(l))

ItemStarts(L, a, b, n) == {j \in a..b : L[j].ind = n}

ItemsOk(L, a, b, n) == a > b \/ (L[a].ind = n /\ \A j \in a..b : L[j].ind >= n)

ItemEnd(L, b, n, j) ==
    LET nx == First({x \in (j + 1)..b : L[x].ind = n}) IN IF nx = 0 THEN b ELSE nx - 1

OneOf(L, S, key) == Cardinality({j \in S : L[j].k = key}) <= 1

KeyLine(L, S, key) == First({j \in S : L[j].k = key})

ParseFileEntry(L, a, b) ==
    LET S == ItemStarts(L, a + 1, b, L[a].ind + 2)
    IN [ok |-> /\ L[a].k = "name"
               /\ \A j \in (a + 1)..b : L[j].k = "pub" /\ L[j].ind = L[a].ind + 2
               /\ Cardinality(S) <= 1,
        val |-> [name |-> L[a].v,
                 pub |-> IF a + 1 <= b THEN L[a + 1].v ELSE None]]

\* the parsed items of a list put together
ParsedList(layout_ok, items) ==
    [ok |-> layout_ok /\ \A k \in 1..Len(items) : items[k].ok,
     val |-> [k \in 1..Len(items) |-> items[k].val]]

ParseFiles(L, a, b, n) ==
    LET starts == SeqOfSet(ItemStarts(L, a, b, n))
    IN ParsedList(ItemsOk(L, a, b, n),
                  [k \in 1..Len(starts) |->
                      ParseFileEntry(L, starts[k], ItemEnd(L, b, n, starts[k]))])

RECURSIVE ParseModule(_, _, _)
RECURSIVE ParseModules(_, _, _, _)
ParseModules(L, a, b, n) ==
    LET starts == SeqOfSet(ItemStarts(L, a, b, n))
    IN ParsedList(ItemsOk(L, a, b, n),
                  [k \in 1..Len(starts) |->
                      ParseModule(L, starts[k], ItemEnd(L, b, n, starts[k]))])

ParseModule(L, a, b) ==
    LET n == L[a].ind
        S == ItemStarts(L, a + 1, b, n + 2)
        fl == KeyLine(L, S, "file")
        tr == KeyLine(L, S, "tree")
        pb == KeyLine(L, S, "pub")
        Built(files, mods) ==
            [ok |-> /\ L[a].k \in {"name", "from"}
                    /\ ItemsOk(L, a + 1, b, n + 2)
                    /\ \A j \in S : L[j].k \in {"pub", "file", "tree"}
                    /\ OneOf(L, S, "pub") /\ OneOf(L, S, "file") /\ OneOf(L, S, "tree")
                    /\ (pb # 0 => ItemEnd(L, b, n + 2, pb) = pb)
                    /\ files.ok /\ mods.ok,
             val |-> [name |-> IF L[a].k = "name" THEN L[a].v ELSE None,
                      from |-> IF L[a].k = "from" THEN L[a].v ELSE None,
                      pub |-> IF pb = 0 THEN None ELSE L[pb].v,
                      tree |-> mods.val,
                      file |-> files.val]]
    IN Built(IF fl = 0 THEN [ok |-> TRUE, val |-> <<>>]
             ELSE ParseFiles(L, fl + 1, ItemEnd(L, b, n + 2, fl), n + 4),
             IF tr = 0 THEN [ok |-> TRUE, val |-> <<>>]
             ELSE ParseModules(L, tr + 1, ItemEnd(L, b, n + 2, tr), n + 4))

ParseProject(L, a, b) ==
    LET S == ItemStarts(L, a + 1, b, 2)
        fl == KeyLine(L, S, "file")
        tr == KeyLine(L, S, "tree")
        lg == KeyLine(L, S, "lang")
        rt == KeyLine(L, S, "root")
        Built(files, mods) ==
            [ok |-> /\ L[a].k = "name"
                    /\ ItemsOk(L, a + 1, b, 2)
                    /\ \A j \in S : L[j].k \in {"lang", "root", "pub", "file", "tree"}
                    /\ \A key \in {"lang", "root", "pub", "file", "tree"} :
                          OneOf(L, S, key)
                    /\ \A j \in S : L[j].k \in {"lang", "root", "pub"}
                                       => ItemEnd(L, b, 2, j) = j
                    /\ lg # 0
                    /\ files.ok /\ mods.ok,
             val |-> [name |-> L[a].v,
                      root |-> rt # 0 /\ L[rt].v = <<"true">>,
                      lang |-> IF lg = 0 THEN "" ELSE L[lg].v[1],
                      file |-> files.val,
                      tree |-> mods.val]]
    IN Built(IF fl = 0 THEN [ok |-> TRUE, val |-> <<>>]
             ELSE ParseFiles(L, fl + 1, ItemEnd(L, b, 2, fl), 4),
             IF tr = 0 THEN [ok |-> TRUE, val |-> <<>>]
             ELSE ParseModules(L, tr + 1, ItemEnd(L, b, 2, tr), 4))

Parse(t) ==
    LET L == NonBlank(Lines(t))
        starts == SeqOfSet(ItemStarts(L, 1, Len(L), 0))
        Built(items) == [ok |-> items.ok, projects |-> items.val]
    IN Built(ParsedList(L # <<>> /\ ItemsOk(L, 1, Len(L), 0),
                        [k \in 1..Len(starts) |->
                            ParseProject(L, starts[k], ItemEnd(L, Len(L), 0, starts[k]))]))

(***************************************************************************)
(* Spec Model accessors (models.rs)                                        *)
(***************************************************************************)
\* Module::extract_repo_name: a URL is the sequence of its '/'-separated
\* segments, each a dotted name; `.git` is stripped from the end.
extract_repo_name(url) ==
    LET last == Last(url)
    IN IF Len(last) >= 2 /\ Last(last) = "git" THEN Front(last) ELSE last

\* Module::name
ModuleName(m) ==
    IF m.name # None THEN m.name
    ELSE IF m.from # None THEN extract_repo_name(m.from)
    ELSE <<"unknown">>

LanguageExt(language) ==
    CASE language = "rust" -> "rs"
      [] language = "go" -> "go"
      [] language = "python" -> "py"
      [] language = "javascript" -> "js"
      [] language = "typescript" -> "ts"
      [] language = "markdown" -> "md"
      [] OTHER -> "txt"

\* CodeFile::filename_with_extension
filename_with_extension(f, language) ==
    IF Len(f.name) >= 2 THEN f.name ELSE Append(f.name, LanguageExt(language))

(***************************************************************************)
(* Managed-Path Collector (path_collector.rs).  A display path is the      *)
(* sequence of its '/'-separated components; is_directory tells whether it *)
(* ends with '/'.                                                          *)
(***************************************************************************)
RECURSIVE collect_module_entries(_, _, _, _, _)
RECURSIVE CollectModules(_, _, _, _, _)
CollectModules(base_path, modules, language, project_index, parent_modules) ==
    IF modules = <<>> THEN <<>>
    ELSE collect_module_entries(base_path, Head(modules), language, project_index,
                                parent_modules)
         \o CollectModules(base_path, Tail(modules), language, project_index,
                           parent_modules)

\* collect_module_entries with the module's files pushed before its own
\* directory entry
collect_module_entries_files_first(base_path, module, language, project_index, parents) ==
    LET module_name == ModuleName(module)
        current_module_path == Append(parents, module_name)
        module_dir == base_path \o current_module_path
    IN [k \in 1..Len(module.file) |->
            [display_path |-> Append(module_dir,
                                     filename_with_extension(module.file[k], language)),
             project_index |-> project_index,
             file_name |-> module.file[k].name,
             module_path |-> current_module_path,
             is_project_level |-> FALSE,
             is_directory |-> FALSE]]
       \o <<[display_path |-> module_dir,
             project_index |-> project_index,
             file_name |-> module_name,
             module_path |-> parents,
             is_project_level |-> FALSE,
             is_directory |-> TRUE]>>
       \o CollectModules(base_path, module.tree, language, project_index,
                         current_module_path)

\* collect_module_entries with the directory entry's module_path holding the
\* module itself
collect_module_entries_own_path(base_path, module, language, project_index, parents) ==
    LET module_name == ModuleName(module)
        current_module_path == Append(parents, module_name)
        module_dir == base_path \o current_module_path
    IN <<[display_path |-> module_dir,
          project_index |-> project_index,
          file_name |-> module_name,
          module_path |-> current_module_path,
          is_project_level |-> FALSE,
          is_directory |-> TRUE]>>
       \o [k \in 1..Len(module.file) |->
            [display_path |-> Append(module_dir,
                                     filename_with_extension(module.file[k], language)),
             project_index |-> project_index,
             file_name |-> module.file[k].name,
             module_path |-> current_module_path,
             is_project_level |-> FALSE,
             is_directory |-> FALSE]]
       \o CollectModules(base_path, module.tree, language, project_index,
                         current_module_path)

collect_module_entries(base_path, module, language, project_index, parent_modules) ==
    LET module_name == ModuleName(module)
        current_module_path == Append(parent_modules, module_name)
        module_dir == base_path \o current_module_path
    IN <<[display_path |-> module_dir,
          project_index |-> project_index,
          file_name |-> module_name,
          module_path |-> parent_modules,
          is_project_level |-> FALSE,
          is_directory |-> TRUE]>>
       \o [k \in 1..Len(module.file) |->
            [display_path |-> Append(module_dir,
                                     filename_with_extension(module.file[k], language)),
             project_index |-> project_index,
             file_name |-> module.file[k].name,
             module_path |-> current_module_path,
             is_project_level |-> FALSE,
             is_directory |-> FALSE]]
       \o CollectModules(base_path, module.tree, language, project_index,
                         current_module_path)

CollectProject(project, project_index) ==
    LET base_path == IF project.root THEN <<>> ELSE <<project.name>>
    IN [k \in 1..Len(project.file) |->
            [display_path |-> Append(base_path,
                                     filename_with_extension(project.file[k], project.lang)),
             project_index |-> project_index,
             file_name |-> project.file[k].name,
             module_path |-> <<>>,
             is_project_level |-> TRUE,
             is_directory |-> FALSE]]
       \o CollectModules(base_path, project.tree, project.lang, project_index, <<>>)

RECURSIVE CollectFrom(_, _)
CollectFrom(projects, i) ==
    IF i > Len(projects) THEN <<>>
    ELSE CollectProject(projects[i], i - 1) \o CollectFrom(projects, i + 1)

collect_all_entries(cfg) == CollectFrom(cfg.projects, 1)

Range(s) == {s[i] : i \in 1..Len(s)}

\* The ManagedPath set of a text (the empty set for a text that does not parse).
ManagedSet(t) ==
    LET Managed(cfg) == IF cfg.ok THEN Range(collect_all_entries(cfg)) ELSE {}
    IN Managed(Parse(t))

(***************************************************************************)
(* The editor's state machine: a specification text, edited by add_entry   *)
(* and remove_entry requests as the load, sync and rm commands issue them. *)
(***************************************************************************)
MaxOps == 1

MaxSegs == 2

Src == <<"src">>

Domain == <<"domain">>

Url == << <<"github", "com">>, <<"acme">>, <<"vendor", "git">> >>

\* yaml_modifier.rs test_remove_file_from_tree (one file less)
DocNested ==
    << N(0, "app"), A(2, "root", <<"true">>), A(2, "lang", <<"rust">>),
       K(2, "tree"),
       N(4, "src"),
       K(6, "file"), N(8, "main"),
       K(6, "tree"),
       N(8, "domain"),
       K(10, "file"), N(12, "model") >>

\* yaml_modifier.rs test_add_file_creates_file_section
DocNoFiles ==
    << N(0, "app"), A(2, "root", <<"true">>), A(2, "lang", <<"rust">>),
       K(2, "tree"),
       N(4, "src"),
       K(6, "tree"),
       N(8, "domain") >>

\* yaml_modifier.rs test_add_top_level_module_creates_tree
DocBare ==
    << N(0, "app"), A(2, "root", <<"true">>), A(2, "lang", <<"rust">>) >>

\* two projects that both own the modules src and src/domain, separated by an
\* empty line
DocTwo ==
    << N(0, "api"), A(2, "lang", <<"go">>),
       K(2, "tree"),
       N(4, "src"),
       K(6, "tree"),
       N(8, "domain"),
       Blank,
       N(0, "web"), A(2, "lang", <<"typescript">>),
       K(2, "tree"),
       N(4, "src"),
       K(6, "tree"),
       N(8, "domain") >>

\* a module that holds a file and a submodule of one name (domain.rs, domain/)
DocSameName ==
    << N(0, "app"), A(2, "root", <<"true">>), A(2, "lang", <<"rust">>),
       K(2, "tree"),
       N(4, "src"),
       K(6, "file"), N(8, "domain"), A(10, "pub", <<"yes">>),
       K(6, "tree"),
       N(8, "domain") >>

\* project-level files, sibling modules and a clone target (lang any)
DocAny ==
    << N(0, "docs"), A(2, "lang", <<"any">>),
       K(2, "file"), NF(4, "README", "md"),
       K(2, "tree"),
       N(4, "src"),
       K(6, "file"), NF(8, "main", "rs"),
       N(4, "domain"),
       Ln(4, "from", Url) >>

\* a module whose `tree:` key precedes its `file:` key (the field order of Module)
DocTreeFirst ==
    << N(0, "app"), A(2, "lang", <<"rust">>),
       K(2, "file"), N(4, "main"),
       K(2, "tree"),
       N(4, "src"), A(6, "pub", <<"no">>),
       K(6, "tree"),
       N(8, "domain"),
       K(6, "file"), N(8, "main"),
       N(4, "domain") >>

\* a top-level module that shares its name with an earlier nested module
DocShadow ==
    << N(0, "app"), A(2, "lang", <<"rust">>),
       K(2, "tree"),
       N(4, "src"),
       K(6, "tree"),
       N(8, "domain"),
       N(4, "domain"),
       K(6, "file"), N(8, "main") >>

\* two empty lines before the last module of the text
DocGap ==
    << N(0, "app"), A(2, "lang", <<"rust">>),
       K(2, "tree"),
       N(4, "src"),
       K(6, "file"), N(8, "main"), A(10, "pub", <<"no">>), N(8, "model"),
       Blank, Blank,
       N(4, "domain") >>

\* a project whose tree holds a clone target only, before a rust project
DocClone ==
    << N(0, "ext"), A(2, "lang", <<"any">>),
       K(2, "tree"),
       Ln(4, "from", Url),
       N(0, "app"), A(2, "lang", <<"rust">>),
       K(2, "file"), N(4, "main"),
       K(2, "tree"),
       N(4, "src"),
       K(6, "file"), N(8, "main"), N(8, "model") >>

\* a project that lists its tree before its files, followed by a second project
DocFileLast ==
    << N(0, "api"), A(2, "lang", <<"go">>),
       K(2, "tree"),
       N(4, "src"),
       K(2, "file"), N(4, "main"),
       N(0, "web"), A(2, "lang", <<"typescript">>) >>

Docs ==
    {DocNested, DocNoFiles, DocBare, DocTwo, DocSameName, DocAny, DocTreeFirst, DocShadow,
     DocGap, DocClone, DocFileLast}

InitTexts == [lines : Docs, nl : BOOLEAN]

ModuleNames == {Src, Domain}

FileNames == {<<"main", "rs">>, <<"domain", "rs">>, <<"README", "md">>}

RECURSIVE SeqsUpTo(_, _)
SeqsUpTo(S, n) ==
    IF n = 0 THEN {<<>>}
    ELSE SeqsUpTo(S, n - 1)
         \cup {Append(q, x) : q \in {r \in SeqsUpTo(S, n - 1) : Len(r) = n - 1}, x \in S}

DirPaths == SeqsUpTo(ModuleNames, MaxSegs) \ {<<>>}

FileChild(name) == [name |-> name, is_directory |-> FALSE, children |-> <<>>]

DirChild(name, children) == [name |-> name, is_directory |-> TRUE, children |-> children]

\* AddChild::from_paths lists sub-directories before files
ChildLists ==
    { <<>>,
      <<FileChild(<<"main", "rs">>)>>,
      <<DirChild(Domain, <<FileChild(<<"domain", "rs">>)>>), FileChild(<<"README", "md">>)>> }

AddRequests(cfg) ==
    { [project_index |-> p, path_segments |-> d, is_directory |-> TRUE,
       language |-> cfg.projects[p + 1].lang, children |-> c] :
          p \in 0..(Len(cfg.projects) - 1), d \in DirPaths, c \in ChildLists }
    \cup
    { [project_index |-> p, path_segments |-> Append(d, f), is_directory |-> FALSE,
       language |-> cfg.projects[p + 1].lang, children |-> <<>>] :
          p \in 0..(Len(cfg.projects) - 1), d \in SeqsUpTo(ModuleNames, MaxSegs),
          f \in FileNames }

AddReq(t, r) ==
    add_entry(t, r.project_index, r.path_segments, r.is_directory, r.language, r.children)

InitEdit ==
    /\ text \in InitTexts
    /\ prev = text
    /\ op = [kind |-> "init", n |-> 0]
    /\ config = None /\ verdict = None /\ disk = None /\ log = None /\ pc = "edit"

\* load / sync: one add_entry request against the current text
Add ==
    /\ pc = "edit" /\ op.n < MaxOps
    /\ \E cfg \in {Parse(text)} :
         /\ cfg.ok
         /\ \E r \in AddRequests(cfg) :
              \E res \in {AddReq(text, r)} :
                 /\ op' = [kind |-> "add", n |-> op.n + 1, req |-> r, ok |-> res.ok]
                 /\ prev' = text
                 /\ text' = IF res.ok THEN res.text ELSE text
    /\ UNCHANGED <<config, verdict, disk, log, pc>>

\* rm / sync: remove_entry for one collected ManagedFile of the current text
Remove ==
    /\ pc = "edit" /\ op.n < MaxOps
    /\ \E m \in ManagedSet(text) :
         \E res \in {remove_entry(text, m)} :
            /\ op' = [kind |-> "remove", n |-> op.n + 1, req |-> m, ok |-> res.ok]
            /\ prev' = text
            /\ text' = IF res.ok THEN res.text ELSE text
    /\ UNCHANGED <<config, verdict, disk, log, pc>>

\* the entries collected from the other texts of the family
Collected == UNION {ManagedSet([lines |-> d, nl |-> FALSE]) : d \in Docs}

\* an entry that the text does not hold
Absent(t, m) ==
    \A e \in ManagedSet(t) :
        \/ e.project_index # m.project_index \/ e.file_name # m.file_name
        \/ e.module_path # m.module_path \/ e.is_directory # m.is_directory
        \/ e.is_project_level # m.is_project_level

\* sync: remove_entry for an entry that was collected before the text changed
\* and is no longer in it
RemoveAbsent ==
    /\ pc = "edit" /\ op.n < MaxOps
    /\ \E m \in {e \in Collected : Absent(text, e)} :
         \E res \in {remove_entry(text, m)} :
            /\ op' = [kind |-> "remove_absent", n |-> op.n + 1, req |-> m, ok |-> res.ok]
            /\ prev' = text
            /\ text' = IF res.ok THEN res.text ELSE text
    /\ UNCHANGED <<config, verdict, disk, log, pc>>

\* add_entry with the index of a project that the text does not hold
AddAbsent ==
    /\ pc = "edit" /\ op.n < MaxOps
    /\ \E cfg \in {Parse(text)} :
         /\ cfg.ok
         /\ \E q \in AddRequests(cfg) :
              /\ q.children = <<>>
              /\ \E r \in {[q EXCEPT !.project_index = Len(cfg.projects)]} :
                   \E res \in {AddReq(text, r)} :
                      /\ op' = [kind |-> "add_absent", n |-> op.n + 1, req |-> r,
                                ok |-> res.ok]
                      /\ prev' = text
                      /\ text' = IF res.ok THEN res.text ELSE text
    /\ UNCHANGED <<config, verdict, disk, log, pc>>

NextEdit == Add \/ Remove \/ RemoveAbsent \/ AddAbsent

SpecEdit == InitEdit /\ [][NextEdit]_vars

(***************************************************************************)
(* What a request designates in the Spec Model                             *)
(***************************************************************************)
\* path_of(r): the ManagedFile fields of the entry an add request names
TargetOf(r) ==
    [project_index |-> r.project_index,
     file_name |-> IF r.is_directory THEN Last(r.path_segments)
                   ELSE filename_without_standard_extension(Last(r.path_segments),
                                                            r.language),
     module_path |-> Front(r.path_segments),
     is_project_level |-> ~r.is_directory /\ Len(r.path_segments) = 1,
     is_directory |-> r.is_directory]

SameEntry(e, m) ==
    /\ e.project_index = m.project_index /\ e.file_name = m.file_name
    /\ e.module_path = m.module_path /\ e.is_directory = m.is_directory
    /\ e.is_project_level = m.is_project_level

\* the entries of the text that are the request's target
Targets(t, r) == {e \in ManagedSet(t) : SameEntry(e, TargetOf(r))}

AddedOk == op.kind = "add" /\ op.ok

\* C1: add_entry is idempotent, add(add(T, r), r) = add(T, r): after a
\* successful add of r, adding r again returns the text unchanged; and when the
\* target entry of r already exists in T, add(T, r) is T.
C1_AddIdempotent ==
    AddedOk => /\ AddReq(text, op.req) = Ok(text)
               /\ (Targets(prev, op.req) # {} /\ op.req.children = <<>>) => text = prev

\* C2: round trip, read in the way most favourable to the code (the target of r
\* is not yet in T and its parent module is): removing the target of r from
\* add(T, r) succeeds and yields the ManagedPath set of T.
ParentExists(t, r) ==
    \/ Len(r.path_segments) = 1
    \/ \E e \in ManagedSet(t) :
         /\ e.is_directory /\ e.project_index = r.project_index
         /\ Append(e.module_path, e.file_name) = Front(r.path_segments)

C2_RoundTrip ==
    (AddedOk /\ Targets(prev, op.req) = {} /\ ParentExists(prev, op.req))
        => LET res == remove_entry(text, TargetOf(op.req))
           IN res.ok /\ ManagedSet(res.text) = ManagedSet(prev)

IsPrefix(a, b) == Len(a) <= Len(b) /\ SubSeq(b, 1, Len(a)) = a

\* e is the directory m or lies below it
Under(m, e) == e.project_index = m.project_index /\ IsPrefix(m.display_path, e.display_path)

RemovedDir == op.kind = "remove" /\ op.req.is_directory

\* C8: remove_entry for a directory target succeeds and deletes the module with
\* all its nested files and submodules, and nothing else: the ManagedPath set
\* of the result is that of the input without the entries under the target.
C8_DirectoryRemoval ==
    RemovedDir => /\ op.ok
                  /\ ManagedSet(text) = {e \in ManagedSet(prev) : ~Under(op.req, e)}

\* The anchor line of the module that `path` denotes: each segment is looked up
\* among the entries of the `tree:` key of the node reached so far.
RECURSIVE AnchorFrom(_, _, _)
AnchorFrom(L, start, path) ==
    IF path = <<>> THEN start
    ELSE LET tk == First({i \in Block(L, start) :
                        IsKey(L[i], "tree") /\ L[i].ind = L[start].ind + 2})
             ch == IF tk = 0 THEN 0
                   ELSE First({j \in Block(L, tk) :
                            L[j].ind = L[tk].ind + 2 /\ IsNameLine(L[j], Head(path))})
         IN IF ch = 0 THEN 0 ELSE AnchorFrom(L, ch, Tail(path))

Anchor(L, p, path) ==
    IF ProjectLine(L, p) = 0 \/ path = <<>> THEN 0
    ELSE AnchorFrom(L, ProjectLine(L, p), path)

KeyOf(L, a, key) == First({i \in Block(L, a) : IsKey(L[i], key) /\ L[i].ind = L[a].ind + 2})

\* an add of a file to a module of the text that has no `file:` key
AddedFileToBare ==
    /\ op.kind = "add" /\ ~op.req.is_directory /\ Len(op.req.path_segments) >= 2
    /\ Anchor(prev.lines, op.req.project_index, Front(op.req.path_segments)) # 0
    /\ KeyOf(prev.lines,
             Anchor(prev.lines, op.req.project_index, Front(op.req.path_segments)),
             "file") = 0

\* C9: adding a file to a module without a `file:` key inserts `file:` one level
\* below the module's anchor line, before the module's `tree:` key if it has
\* one and at the end of the module's block otherwise, followed by exactly one
\* `- name: <bare name>` entry; no other line changes.
C9_FileSectionCreated ==
    AddedFileToBare =>
        LET L == prev.lines
            r == op.req
            a == Anchor(L, r.project_index, Front(r.path_segments))
            new == <<K(L[a].ind + 2, "file"),
                     Ln(L[a].ind + 4, "name", TargetOf(r).file_name)>>
            pos == IF KeyOf(L, a, "tree") # 0 THEN KeyOf(L, a, "tree") - 1
                   ELSE BlockEnd(L, a)
        IN op.ok /\ text = [lines |-> InsertAt(L, pos, new), nl |-> prev.nl]

(***************************************************************************)
(* The collector applied to Spec Models: collect_all_entries on every      *)
(* configuration of a bounded family (projects in sequence, root or not,   *)
(* trees with repeated names, clone targets).                              *)
(***************************************************************************)
MaxProjects == 2

MaxDepth == 2

MaxWidth == 2

CodeFile(name) == [name |-> name, pub |-> None]

Mod(name, files, tree) ==
    [name |-> name, from |-> None, pub |-> None, tree |-> tree, file |-> files]

CloneMod(url) == [name |-> None, from |-> url, pub |-> None, tree |-> <<>>, file |-> <<>>]

Proj(name, root, lang, files, tree) ==
    [name |-> name, root |-> root, lang |-> lang, file |-> files, tree |-> tree]

\* module heads: a name with the module's own files
ModHeads ==
    { <<Src, <<CodeFile(<<"main">>)>> >>,
      <<Domain, <<>> >>,
      <<Domain, <<CodeFile(<<"model">>), CodeFile(<<"repository">>)>> >> }

\* modules nested at most d deep, each with at most one child module
RECURSIVE ModsOfDepth(_)
ModsOfDepth(d) ==
    IF d = 0 THEN {}
    ELSE {CloneMod(Url)}
         \cup {Mod(h[1], h[2], t) : h \in ModHeads, t \in SeqsUpTo(ModsOfDepth(d - 1), 1)}

\* a tree: a module of any depth followed by childless siblings
Trees ==
    {<<>>} \cup {<<m>> \o rest : m \in ModsOfDepth(MaxDepth),
                                rest \in SeqsUpTo(ModsOfDepth(1), MaxWidth - 1)}

LastProjects ==
    {Proj(n, r, l, f, t) : n \in {<<"app">>, Src}, r \in BOOLEAN, l \in {"rust", "any"},
                           f \in {<<>>, <<CodeFile(<<"main">>), CodeFile(<<"build">>)>>},
                           t \in Trees}

EarlierProjects ==
    { Proj(Src, FALSE, "go", <<CodeFile(<<"main">>)>>, <<>>),
      Proj(<<"api">>, FALSE, "go", <<>>, <<Mod(Src, <<CodeFile(<<"main">>)>>, <<>>)>>) }

CollectConfigs ==
    {[projects |-> Append(e, p)] :
        e \in SeqsUpTo(EarlierProjects, MaxProjects - 1), p \in LastProjects}

InitCollect ==
    /\ config \in CollectConfigs
    /\ log = None /\ pc = "collect"
    /\ text = None /\ prev = None /\ op = None /\ verdict = None /\ disk = None

\* rm / sync / status: the ManagedPath list of the parsed configuration
Collect ==
    /\ pc = "collect"
    /\ log' = collect_all_entries(config)
    /\ pc' = "collected"
    /\ UNCHANGED <<text, prev, op, config, verdict, disk>>

NextCollect == Collect

SpecCollect == InitCollect /\ [][NextCollect]_vars

\* the display path of directory d is a prefix of the display path of e
\* ("src/domain/" of "src/domain/model.rs", not of the file "src/domain")
PathPrefix(d, e) ==
    /\ IsPrefix(d.display_path, e.display_path)
    /\ (Len(e.display_path) > Len(d.display_path) \/ e.is_directory)

RECURSIVE DistinctSiblings(_)
DistinctSiblings(tree) ==
    /\ \A a, b \in 1..Len(tree) : a # b => ModuleName(tree[a]) # ModuleName(tree[b])
    /\ \A a \in 1..Len(tree) : DistinctSiblings(tree[a].tree)

ValidationError(path, message, arg) == [path |-> path, message |-> message, arg |-> arg]

\* format!("{}[{}]", path, i) and format!("{}.tree[{}]", path, i), i counted from 0
Indexed(path, i) == Append(path, ToString(i))

\* str::is_empty on a name (a name is the sequence of its dot-separated parts)
is_empty(name) == name = <<"">> \/ name = <<>>

\* the name parts that hold a '/' and those that hold a '\'
SlashParts == {"core/util"}

BackslashParts == {"core\\util"}

\* str::contains(c) for the two path separators
contains(name, c) ==
    \E i \in 1..Len(name) : name[i] \in (IF c = "/" THEN SlashParts ELSE BackslashParts)

is_supported_language(lang) ==
    lang \in {"rust", "go", "python", "javascript", "typescript", "any", "bash", "lua"}

\* the messages of the clone-target rules
FromNeedsAny ==
    "Module with 'from' field can only be used with 'lang: any' (current: {})"

FromHasTree ==
    "Module with 'from' field cannot have 'tree' (git clone target cannot have subdirectories)"

FromHasFile ==
    "Module with 'from' field cannot have 'file' (git clone target cannot have files)"

RECURSIVE validate_module(_, _, _)
RECURSIVE ValidateModules(_, _, _, _)
\* the loop over a tree: the errors of the modules from index i on, in order
ValidateModules(tree, i, path, language) ==
    IF i > Len(tree) THEN <<>>
    ELSE validate_module(tree[i], Indexed(Append(path, "tree"), i - 1), language)
         \o ValidateModules(tree, i + 1, path, language)

\* validate_module that returns at the first rule a module breaks and does not
\* descend into its subtree
validate_module_first_only(module, path, language) ==
    IF module.name = None /\ module.from = None
    THEN <<ValidationError(path, "Module must have either 'name' or 'from' field", None)>>
    ELSE IF is_empty(ModuleName(module))
    THEN <<ValidationError(Append(path, "name"), "Module name cannot be empty", None)>>
    ELSE IF contains(ModuleName(module), "/") \/ contains(ModuleName(module), "\\")
    THEN <<ValidationError(Append(path, "name"),
                           "Module name cannot contain path separators", None)>>
    ELSE IF module.from # None /\ language # "any"
    THEN <<ValidationError(Append(path, "from"), FromNeedsAny, <<language>>)>>
    ELSE <<>>

\* the errors of a module and of its subtree (Ok(()) is the empty sequence)
validate_module(module, path, language) ==
    (IF module.name = None /\ module.from = None
     THEN <<ValidationError(path, "Module must have either 'name' or 'from' field", None)>>
     ELSE <<>>)
    \o (IF is_empty(ModuleName(module))
        THEN <<ValidationError(Append(path, "name"), "Module name cannot be empty", None)>>
        ELSE <<>>)
    \o (IF contains(ModuleName(module), "/") \/ contains(ModuleName(module), "\\")
        THEN <<ValidationError(Append(path, "name"),
                               "Module name cannot contain path separators", None)>>
        ELSE <<>>)
    \o (IF module.from # None /\ language # "any"
        THEN <<ValidationError(Append(path, "from"), FromNeedsAny,
                  <<language>>)>>
        ELSE <<>>)
    \o (IF module.from # None /\ module.tree # <<>>
        THEN <<ValidationError(Append(path, "tree"),
                               FromHasTree, None)>>
        ELSE <<>>)
    \o (IF module.from # None /\ module.file # <<>>
        THEN <<ValidationError(Append(path, "file"),
                               FromHasFile, None)>>
        ELSE <<>>)
    \o ValidateModules(module.tree, 1, path, language)

\* validate_project that checks the project's own fields and not its tree
validate_project_without_tree(project, path) ==
    (IF is_empty(project.name)
     THEN <<ValidationError(Append(path, "name"), "Project name cannot be empty", None)>>
     ELSE <<>>)
    \o (IF project.lang = ""
        THEN <<ValidationError(Append(path, "lang"), "Project language cannot be empty",
                               None)>>
        ELSE IF ~is_supported_language(project.lang)
        THEN <<ValidationError(Append(path, "lang"), "Unsupported language: {}",
                               <<project.lang>>)>>
        ELSE <<>>)

validate_project(project, path) ==
    (IF is_empty(project.name)
     THEN <<ValidationError(Append(path, "name"), "Project name cannot be empty", None)>>
     ELSE <<>>)
    \o (IF project.lang = ""
        THEN <<ValidationError(Append(path, "lang"), "Project language cannot be empty",
                               None)>>
        ELSE IF ~is_supported_language(project.lang)
        THEN <<ValidationError(Append(path, "lang"), "Unsupported language: {}",
                               <<project.lang>>)>>
        ELSE <<>>)
    \o ValidateModules(project.tree, 1, path, project.lang)

\* validate_root_projects that lets any number of root projects pass
validate_root_projects_any(cfg) == <<>>

validate_root_projects(cfg) ==
    IF Cardinality({i \in 1..Len(cfg.projects) : cfg.projects[i].root}) >= 2
    THEN <<ValidationError(<<"projects">>, "Only one project can be marked as root", None)>>
    ELSE <<>>

\* one error for every project whose name an earlier project has (seen_names)
RECURSIVE ProjectNamesFrom(_, _)
ProjectNamesFrom(projects, i) ==
    IF i > Len(projects) THEN <<>>
    ELSE (IF \E j \in 1..(i - 1) : projects[j].name = projects[i].name
          THEN <<ValidationError(Append(Indexed(<<"projects">>, i - 1), "name"),
                                 "Duplicate project name: {}", projects[i].name)>>
          ELSE <<>>)
         \o ProjectNamesFrom(projects, i + 1)

validate_project_names(cfg) == ProjectNamesFrom(cfg.projects, 1)

RECURSIVE ValidateProjects(_, _)
ValidateProjects(projects, i) ==
    IF i > Len(projects) THEN <<>>
    ELSE validate_project(projects[i], Indexed(<<"projects">>, i - 1))
         \o ValidateProjects(projects, i + 1)

\* ConfigValidator::validate: ok, or the failure with its errors, one per line
\* of the message (the bail on an empty project list carries no locator)
validate(cfg) ==
    IF cfg.projects = <<>>
    THEN [ok |-> FALSE,
          errors |-> <<ValidationError(None,
                         "Configuration must contain at least one project", None)>>]
    ELSE LET errors == ValidateProjects(cfg.projects, 1)
                       \o validate_root_projects(cfg)
                       \o validate_project_names(cfg)
         IN [ok |-> errors = <<>>, errors |-> errors]

(***************************************************************************)
(* The disk: the directories and the files (path to content) below the     *)
(* working directory.  A path is the sequence of its components, the       *)
(* working directory the empty path.                                       *)
(***************************************************************************)
EmptyDisk == [dirs |-> {}, files |-> <<>>]

(***************************************************************************)
(* moli up (up.rs action_generate): validation, then generation.           *)
(***************************************************************************)
\* ConfigValidator::validate(&config)?: a failure returns from the command
Validate ==
    /\ pc = "validate"
    /\ verdict' = validate(config)
    /\ pc' = IF verdict'.ok THEN "structure" ELSE "failed"
    /\ UNCHANGED <<text, prev, op, config, disk, log>>

(***************************************************************************)
(* The validator applied to Spec Models: a bounded family with every rule  *)
(* broken and kept, alone and together, at the top of a tree and below.    *)
(***************************************************************************)
Nameless == [name |-> None, from |-> None, pub |-> None, tree |-> <<>>, file |-> <<>>]

VSiblings ==
    { Mod(Src, <<CodeFile(<<"main">>)>>, <<>>),
      CloneMod(Url),
      [CloneMod(Url) EXCEPT !.file = <<CodeFile(<<"main">>)>>] }

VLeaves ==
    VSiblings
    \cup { Mod(<<"">>, <<>>, <<>>),
           Mod(<<"core/util">>, <<>>, <<>>),
           Mod(<<"core\\util">>, <<>>, <<>>),
           Nameless }

VParents == { Mod(Src, <<>>, <<>>), CloneMod(Url), Mod(<<"">>, <<>>, <<>>), Nameless }

VModules == VLeaves \cup {[m EXCEPT !.tree = <<c>>] : m \in VParents, c \in VLeaves}

VTrees ==
    {<<>>} \cup {<<m>> : m \in VModules} \cup {<<m, s>> : m \in VModules, s \in VSiblings}

VLastProjects ==
    {Proj(n, r, l, <<>>, t) : n \in {<<"app">>, <<"">>}, r \in BOOLEAN,
                              l \in {"rust", "any", "", "cobol"}, t \in VTrees}

VEarlierProjects ==
    { Proj(<<"app">>, TRUE, "rust", <<>>, <<>>),
      Proj(<<"api">>, FALSE, "any", <<>>, <<CloneMod(Url)>>),
      Proj(<<"app">>, FALSE, "go", <<>>, <<Mod(Src, <<CodeFile(<<"main">>)>>, <<>>)>>) }

ValidateConfigs ==
    {[projects |-> <<>>]}
    \cup {[projects |-> Append(e, p)] :
            e \in SeqsUpTo(VEarlierProjects, MaxProjects - 1), p \in VLastProjects}

InitValidate ==
    /\ config \in ValidateConfigs
    /\ pc = "validate"
    /\ verdict = None /\ disk = EmptyDisk /\ prev = EmptyDisk /\ log = <<>>
    /\ op = None /\ text = None

NextValidate == Validate

SpecValidate == InitValidate /\ [][NextValidate]_vars

\* the module nodes of a tree, each with its locator
RECURSIVE ModuleNodes(_, _)
ModuleNodes(tree, path) ==
    UNION { {[path |-> Indexed(Append(path, "tree"), i - 1), module |-> tree[i]]}
            \cup ModuleNodes(tree[i].tree, Indexed(Append(path, "tree"), i - 1))
          : i \in 1..Len(tree) }

Violation(path, message) == [path |-> path, message |-> message]

When(cond, v) == IF cond THEN {v} ELSE {}

\* the rules a module node breaks in a project of the given language
ModuleViolations(n, language) ==
    LET m == n.module
        name == ModuleName(m)
    IN When(m.name = None /\ m.from = None,
            Violation(n.path, "Module must have either 'name' or 'from' field"))
       \cup When(name \in {<<>>, <<"">>},
                 Violation(Append(n.path, "name"), "Module name cannot be empty"))
       \cup When(\E i \in 1..Len(name) : name[i] \in SlashParts \cup BackslashParts,
                 Violation(Append(n.path, "name"),
                           "Module name cannot contain path separators"))
       \cup When(m.from # None /\ language # "any",
                 Violation(Append(n.path, "from"), FromNeedsAny))
       \cup When(m.from # None /\ m.tree # <<>>,
                 Violation(Append(n.path, "tree"), FromHasTree))
       \cup When(m.from # None /\ m.file # <<>>,
                 Violation(Append(n.path, "file"), FromHasFile))

\* every rule a configuration breaks, with the place where it breaks it
Violations(cfg) ==
    LET P == cfg.projects
        at(i) == <<"projects", ToString(i - 1)>>
    IN UNION { When(P[i].name \in {<<>>, <<"">>},
                    Violation(Append(at(i), "name"), "Project name cannot be empty"))
               \cup When(P[i].lang = "",
                         Violation(Append(at(i), "lang"),
                                   "Project language cannot be empty"))
               \cup When(P[i].lang # "" /\ ~is_supported_language(P[i].lang),
                         Violation(Append(at(i), "lang"), "Unsupported language: {}"))
               \cup UNION {ModuleViolations(n, P[i].lang) : n \in ModuleNodes(P[i].tree, at(i))}
               \cup When(\E j \in 1..(i - 1) : P[j].name = P[i].name,
                         Violation(Append(at(i), "name"), "Duplicate project name: {}"))
             : i \in 1..Len(P) }
       \cup When(\E i, j \in 1..Len(P) : i # j /\ P[i].root /\ P[j].root,
                 Violation(<<"projects">>, "Only one project can be marked as root"))

Validated == pc \in {"structure", "failed"}

\* C6: validate collects every violation: for a configuration with projects, the
\* failure reports exactly one error per rule broken, each with the locator of
\* the place that breaks it, and validate returns Ok only when no rule is broken.
C6_AllViolationsReported ==
    (Validated /\ config.projects # <<>>) =>
        /\ {Violation(verdict.errors[k].path, verdict.errors[k].message) :
                k \in 1..Len(verdict.errors)} = Violations(config)
        /\ Len(verdict.errors) = Cardinality(Violations(config))
        /\ \A k \in 1..Len(verdict.errors) : verdict.errors[k].path # None
        /\ verdict.ok <=> Violations(config) = {}

\* a failure that reports, at once, an unsupported language, an empty module
\* name, a separator in a module name, an illegal clone target, a second root
\* and a repeated project name
C6_Witness ==
    /\ pc = "failed"
    /\ \A msg \in {"Unsupported language: {}", "Module name cannot be empty",
                   "Module name cannot contain path separators", FromNeedsAny,
                   FromHasFile, "Only one project can be marked as root",
                   "Duplicate project name: {}"} :
         \E k \in 1..Len(verdict.errors) : verdict.errors[k].message = msg

\* the clone-target modules of a configuration, each with its project's language
CloneTargets(cfg) ==
    UNION { {[module |-> n.module, lang |-> cfg.projects[i].lang] :
                n \in {x \in ModuleNodes(cfg.projects[i].tree, <<>>) : x.module.from # None}}
          : i \in 1..Len(cfg.projects) }

LegalClone(c) == c.module.file = <<>> /\ c.module.tree = <<>> /\ c.lang = "any"

\* C7: in every accepted configuration each clone-target module, at any depth,
\* is a leaf (no files, no subtree) in a project of language "any"; a
\* configuration with a clone target that breaks either condition is rejected.
C7_CloneTargetsAreLeaves ==
    Validated =>
        /\ verdict.ok => \A c \in CloneTargets(config) : LegalClone(c)
        /\ (\E c \in CloneTargets(config) : ~LegalClone(c)) => pc = "failed"

\* an accepted configuration with a clone target below the top of a tree
C7_Witness ==
    /\ pc = "structure" /\ verdict.ok
    /\ \E i \in 1..Len(config.projects) :
         \E k \in 1..Len(config.projects[i].tree) :
            \E c \in 1..Len(config.projects[i].tree[k].tree) :
               config.projects[i].tree[k].tree[c].from # None

(***************************************************************************)
(* File system calls on the disk.  A world is the disk with the record of  *)
(* the clone invocations and whether the call chain is still without       *)
(* error: `?` returns at the first error, so a failed world passes through *)
(* every later call unchanged.                                             *)
(***************************************************************************)
World(d, l) == [ok |-> TRUE, disk |-> d, log |-> l]

\* `.with_context(|| format!("Failed to create ...: {}", path.display()))?`:
\* the error that ends the run carries the path of the failed call
Failed(w, p) ==
    [w EXCEPT !.ok = FALSE,
              !.log = Append(@, [event |-> "error", url |-> None, target |-> p,
                                 outcome |-> "io"])]

Prefixes(p) == {SubSeq(p, 1, k) : k \in 1..Len(p)}

IsFile(d, p) == p \in DOMAIN d.files

IsDir(d, p) == p = <<>> \/ p \in d.dirs

\* Path::exists
exists(d, p) == IsDir(d, p) \/ IsFile(d, p)

\* fs::create_dir_all: an error when a component of the path is a file
create_dir_all(w, p) ==
    IF ~w.ok THEN w
    ELSE IF \E q \in Prefixes(p) : IsFile(w.disk, q) THEN Failed(w, p)
    ELSE [w EXCEPT !.disk.dirs = @ \cup Prefixes(p)]

\* fs::write: creates or replaces the file; an error when the path is a
\* directory or its parent is none
fs_write(w, p, content) ==
    IF ~w.ok THEN w
    ELSE IF p = <<>> \/ IsDir(w.disk, p) \/ ~IsDir(w.disk, Front(p)) THEN Failed(w, p)
    ELSE [w EXCEPT !.disk.files =
            [q \in DOMAIN w.disk.files \cup {p} |->
                IF q = p THEN content ELSE w.disk.files[q]]]

\* if !path.exists() { fs::write(path, content)? }
write_if_absent(w, p, content) ==
    IF ~w.ok \/ exists(w.disk, p) THEN w ELSE fs_write(w, p, content)

\* A content is the text outside the marker block (with the argument it was
\* formatted with), and the declarations of the marker block when the file
\* has one.
Content(outside) ==
    [outside |-> outside, arg |-> None, marked |-> FALSE, block |-> <<>>]

\* the outcomes of `git clone`: done, a non-zero exit, a failure to launch
CloneOutcomes == {"cloned", "exit", "launch"}

\* Command::new("git").arg("clone").arg(url).arg(target).output(): the
\* repository appears at the target when the clone succeeds; every outcome
\* is logged and none is an error
\* git clone whose failure is an error of the run
git_clone_fatal(w, url, target, git) ==
    LET done == [w EXCEPT !.log = Append(@, [event |-> "clone", url |-> url,
                                             target |-> target, outcome |-> git[target]])]
    IN IF git[target] = "cloned"
       THEN [done EXCEPT !.disk.dirs = @ \cup Prefixes(target)
                                         \cup {Append(target, <<"", "git">>)}]
       ELSE Failed(done, target)

git_clone(w, url, target, git) ==
    LET done == [w EXCEPT !.log = Append(@, [event |-> "clone", url |-> url,
                                             target |-> target, outcome |-> git[target]])]
    IN IF git[target] = "cloned"
       THEN [done EXCEPT !.disk.dirs = @ \cup Prefixes(target)
                                         \cup {Append(target, <<"", "git">>)}]
       ELSE done

(***************************************************************************)
(* DirectoryBuilder (directory_builder.rs)                                 *)
(***************************************************************************)
RECURSIVE build_module_structure(_, _, _, _)
RECURSIVE BuildModules(_, _, _, _, _)
\* for module in tree { build_module_structure(base_path, module)? }
BuildModules(w, base_path, tree, i, git) ==
    IF i > Len(tree) \/ ~w.ok THEN w
    ELSE BuildModules(build_module_structure(w, base_path, tree[i], git),
                      base_path, tree, i + 1, git)

\* build_module_structure that clones without looking at the target first
build_module_structure_unchecked(w, base_path, module, git) ==
    LET module_path == Append(base_path, ModuleName(module))
    IN IF ~w.ok THEN w
       ELSE IF module.from # None THEN git_clone(w, module.from, module_path, git)
       ELSE BuildModules(create_dir_all(w, module_path), module_path, module.tree, 1, git)

build_module_structure(w, base_path, module, git) ==
    LET module_path == Append(base_path, ModuleName(module))
    IN IF ~w.ok THEN w
       ELSE IF module.from # None
       THEN IF exists(w.disk, module_path)
            THEN [w EXCEPT !.log = Append(@, [event |-> "skip", url |-> module.from,
                                              target |-> module_path,
                                              outcome |-> "exists"])]
            ELSE git_clone(w, module.from, module_path, git)
       ELSE BuildModules(create_dir_all(w, module_path), module_path, module.tree, 1, git)

\* the materialization root of a project below base_path
ProjectPath(base_path, project) ==
    IF project.root THEN base_path ELSE Append(base_path, project.name)

build_project_structure(w, base_path, project, git) ==
    BuildModules(IF project.root THEN w ELSE create_dir_all(w, Append(base_path, project.name)),
                 ProjectPath(base_path, project), project.tree, 1, git)

(***************************************************************************)
(* ContentUpdater: the declarations between the two marker comments are    *)
(* replaced, the text outside them is kept; a file that does not exist is  *)
(* created with the marker block alone.                                    *)
(***************************************************************************)
Declaration(prefix, name) == [prefix |-> prefix, name |-> name]

UpdateMarkerBlock(w, p, declarations) ==
    IF ~w.ok THEN w
    ELSE IF IsFile(w.disk, p)
    THEN fs_write(w, p, [w.disk.files[p] EXCEPT !.marked = TRUE, !.block = declarations])
    ELSE fs_write(w, p, [Content("") EXCEPT !.marked = TRUE, !.block = declarations])

update_rust_module_file(w, p, declarations) == UpdateMarkerBlock(w, p, declarations)

update_js_index_file(w, p, declarations) == UpdateMarkerBlock(w, p, declarations)

(***************************************************************************)
(* RustModuleGenerator (rust/module_generator.rs)                          *)
(***************************************************************************)
\* filename.ends_with(".rs")
is_rust_code_file(filename) == Len(filename) >= 2 /\ Last(filename) = "rs"

get_visibility_prefix(pub_setting, target_type) ==
    CASE pub_setting = <<"yes">> -> "pub "
      [] pub_setting = <<"no">> -> ""
      [] pub_setting = <<"crate">> -> "pub(crate) "
      [] pub_setting = <<"super">> -> "pub(super) "
      [] pub_setting = None -> IF target_type = "main" THEN "" ELSE "pub "
      [] OTHER -> "pub "

\* the `mod` declarations of the code files, but for the excluded file names
RustFileDeclarations(files, target_type, excluded) ==
    LET declared == SelectSeq(files, LAMBDA f :
                        /\ is_rust_code_file(filename_with_extension(f, "rust"))
                        /\ filename_with_extension(f, "rust") \notin excluded)
    IN [k \in 1..Len(declared) |->
            Declaration(get_visibility_prefix(declared[k].pub, target_type),
                        declared[k].name)]

RustModuleDeclarations(tree, target_type) ==
    [k \in 1..Len(tree) |->
        Declaration(get_visibility_prefix(tree[k].pub, target_type), ModuleName(tree[k]))]

\* for codefile in files: the file is created empty if nothing is at its path
RECURSIVE CreateEmptyFiles(_, _, _, _, _)
CreateEmptyFiles(w, module_path, files, i, language) ==
    IF i > Len(files) \/ ~w.ok THEN w
    ELSE CreateEmptyFiles(
            write_if_absent(w, Append(module_path,
                                      filename_with_extension(files[i], language)),
                            Content("")),
            module_path, files, i + 1, language)

RECURSIVE rust_generate_module(_, _, _, _)
RECURSIVE RustGenerateModules(_, _, _, _, _)
RustGenerateModules(w, base_path, tree, i, parent_modules) ==
    IF i > Len(tree) \/ ~w.ok THEN w
    ELSE RustGenerateModules(rust_generate_module(w, base_path, tree[i], parent_modules),
                             base_path, tree, i + 1, parent_modules)

\* generate_module without the exception for the module named src
rust_generate_module_with_src(w, base_path, module, parent_modules) ==
    LET module_name == ModuleName(module)
        module_path == Append(base_path, module_name)
        module_declarations ==
            RustFileDeclarations(module.file, "mod", {<<"mod", "rs">>})
            \o RustModuleDeclarations(module.tree, "mod")
        files == CreateEmptyFiles(create_dir_all(w, module_path), module_path,
                                  module.file, 1, "rust")
        subtree == RustGenerateModules(files, module_path, module.tree, 1,
                                       Append(parent_modules, module_name))
    IN update_rust_module_file(subtree, Append(module_path, <<"mod", "rs">>),
                               module_declarations)

rust_generate_module(w, base_path, module, parent_modules) ==
    LET module_name == ModuleName(module)
        module_path == Append(base_path, module_name)
        module_declarations ==
            RustFileDeclarations(module.file, "mod", {<<"mod", "rs">>})
            \o RustModuleDeclarations(module.tree, "mod")
        files == CreateEmptyFiles(create_dir_all(w, module_path), module_path,
                                  module.file, 1, "rust")
        subtree == RustGenerateModules(files, module_path, module.tree, 1,
                                       Append(parent_modules, module_name))
    IN IF module_name # <<"src">>
       THEN update_rust_module_file(subtree, Append(module_path, <<"mod", "rs">>),
                                    module_declarations)
       ELSE subtree

\* the declarations main.rs and lib.rs take from the src modules
RECURSIVE SrcDeclarations(_, _)
SrcDeclarations(src_modules, target_type) ==
    IF src_modules = <<>> THEN <<>>
    ELSE (IF ModuleName(Head(src_modules)) = <<"src">>
          THEN RustFileDeclarations(Head(src_modules).file, target_type,
                                    {<<"mod", "rs">>, <<"main", "rs">>, <<"lib", "rs">>})
               \o RustModuleDeclarations(Head(src_modules).tree, target_type)
          ELSE <<>>)
         \o SrcDeclarations(Tail(src_modules), target_type)

generate_main_rs(w, project_path, src_modules) ==
    update_rust_module_file(w, project_path \o <<Src, <<"main", "rs">> >>,
                            SrcDeclarations(src_modules, "main"))

generate_lib_rs(w, project_path, src_modules) ==
    update_rust_module_file(w, project_path \o <<Src, <<"lib", "rs">> >>,
                            SrcDeclarations(src_modules, "lib"))

\* a file named `stem` or `stem.rs` among the project's files or the files of
\* its top-level modules named src
HasEntryFile(project, stem) ==
    LET named(f) == f.name = <<stem>> \/ filename_with_extension(f, "rust") = <<stem, "rs">>
    IN \/ \E k \in 1..Len(project.file) : named(project.file[k])
       \/ \E m \in 1..Len(project.tree) :
            /\ ModuleName(project.tree[m]) = Src
            /\ \E k \in 1..Len(project.tree[m].file) : named(project.tree[m].file[k])

should_generate_main_rs(project) == HasEntryFile(project, "main")

should_generate_lib_rs(project) == HasEntryFile(project, "lib")

(***************************************************************************)
(* TypeScriptModuleGenerator (typescript/module_generator.rs)              *)
(***************************************************************************)
is_typescript_code_file(filename) ==
    Len(filename) >= 2 /\ Last(filename) \in {"ts", "tsx"}

\* the name without a .ts, .tsx, .vue, .js or .jsx extension
get_module_name_for_export(codefile) ==
    IF Len(codefile.name) >= 2 /\ Last(codefile.name) \in {"ts", "tsx", "vue", "js", "jsx"}
    THEN Front(codefile.name) ELSE codefile.name

TypeScriptExports(module) ==
    LET exported == SelectSeq(module.file, LAMBDA f :
                        /\ is_typescript_code_file(filename_with_extension(f, "typescript"))
                        /\ filename_with_extension(f, "typescript") # <<"index", "ts">>)
    IN [k \in 1..Len(exported) |->
            Declaration("export * from ", get_module_name_for_export(exported[k]))]
       \o [k \in 1..Len(module.tree) |->
            Declaration("export * from ", ModuleName(module.tree[k]))]

RECURSIVE typescript_generate_module(_, _, _, _)
RECURSIVE TypeScriptGenerateModules(_, _, _, _, _)
TypeScriptGenerateModules(w, base_path, tree, i, parent_modules) ==
    IF i > Len(tree) \/ ~w.ok THEN w
    ELSE TypeScriptGenerateModules(
            typescript_generate_module(w, base_path, tree[i], parent_modules),
            base_path, tree, i + 1, parent_modules)

typescript_generate_module(w, base_path, module, parent_modules) ==
    LET module_name == ModuleName(module)
        module_path == Append(base_path, module_name)
        files == CreateEmptyFiles(create_dir_all(w, module_path), module_path,
                                  module.file, 1, "typescript")
        subtree == TypeScriptGenerateModules(files, module_path, module.tree, 1,
                                             Append(parent_modules, module_name))
        has_explicit_index ==
            \E k \in 1..Len(module.file) :
                \/ module.file[k].name = <<"index">>
                \/ filename_with_extension(module.file[k], "typescript") = <<"index", "ts">>
    IN IF has_explicit_index
       THEN update_js_index_file(subtree, Append(module_path, <<"index", "ts">>),
                                 TypeScriptExports(module))
       ELSE subtree

generate_package_json(w, project_path, project_name) ==
    write_if_absent(w, Append(project_path, <<"package", "json">>),
                    [Content("{ \"name\": \"{}\", \"version\": \"1.0.0\" }")
                        EXCEPT !.arg = project_name])

generate_tsconfig_json(w, project_path) ==
    write_if_absent(w, Append(project_path, <<"tsconfig", "json">>),
                    Content("{ \"compilerOptions\": {} }"))

(***************************************************************************)
(* FileBuilder (file_builder.rs)                                           *)
(***************************************************************************)
\* the name parts that hold the word
PartsWith(word) == {word}

\* codefile.name().contains(word)
name_contains(name, word) == \E i \in 1..Len(name) : name[i] \in PartsWith(word)

generate_file_content(codefile, language) ==
    CASE language = "go" ->
            IF name_contains(codefile.name, "main")
            THEN Content("package main\n\nfunc main() {\n\t// TODO: implement\n}\n")
            ELSE Content("package main\n\n// TODO: implement\n")
      [] language = "python" ->
            IF codefile.name = <<"__init__">>
            THEN Content("# Package initialization\n")
            ELSE Content("# TODO: implement\n")
      [] language \in {"javascript", "typescript"} ->
            IF name_contains(codefile.name, "index")
            THEN Content("// Main entry point\nconsole.log('Hello, world!');\n")
            ELSE Content("// TODO: implement\n")
      [] OTHER -> Content("")

\* for codefile in module.files(): fs::write(file_path, content)?
RECURSIVE WriteGenericFiles(_, _, _, _, _)
WriteGenericFiles(w, module_path, files, i, language) ==
    IF i > Len(files) \/ ~w.ok THEN w
    ELSE WriteGenericFiles(
            fs_write(w, Append(module_path, filename_with_extension(files[i], language)),
                     generate_file_content(files[i], language)),
            module_path, files, i + 1, language)

RECURSIVE build_generic_module_files(_, _, _, _)
RECURSIVE BuildGenericModules(_, _, _, _, _)
BuildGenericModules(w, base_path, tree, i, language) ==
    IF i > Len(tree) \/ ~w.ok THEN w
    ELSE BuildGenericModules(build_generic_module_files(w, base_path, tree[i], language),
                             base_path, tree, i + 1, language)

build_generic_module_files(w, base_path, module, language) ==
    LET module_path == Append(base_path, ModuleName(module))
    IN BuildGenericModules(WriteGenericFiles(w, module_path, module.file, 1, language),
                           module_path, module.tree, 1, language)

build_generic_project_files(w, project_path, project) ==
    BuildGenericModules(w, project_path, project.tree, 1, project.lang)

build_rust_project_files(w, project_path, project) ==
    LET modules == RustGenerateModules(w, project_path, project.tree, 1, <<>>)
        src == SelectSeq(project.tree, LAMBDA m : ModuleName(m) = Src)
    IN IF src = <<>> THEN modules
       ELSE IF should_generate_main_rs(project)
       THEN generate_main_rs(modules, project_path, <<Head(src)>>)
       ELSE IF should_generate_lib_rs(project)
       THEN generate_lib_rs(modules, project_path, <<Head(src)>>)
       ELSE modules

build_typescript_project_files(w, project_path, project) ==
    TypeScriptGenerateModules(
        generate_tsconfig_json(generate_package_json(w, project_path, project.name),
                               project_path),
        project_path, project.tree, 1, <<>>)

build_project_files(w, base_path, project) ==
    CASE project.lang = "rust" ->
            build_rust_project_files(w, ProjectPath(base_path, project), project)
      [] project.lang = "typescript" ->
            build_typescript_project_files(w, ProjectPath(base_path, project), project)
      [] OTHER -> build_generic_project_files(w, ProjectPath(base_path, project), project)

(***************************************************************************)
(* AnyFileHandler (any/file_handler.rs): the files as they are named       *)
(***************************************************************************)
\* for codefile in files: created empty, under its exact name, if nothing is
\* at its path
RECURSIVE CreateNamedFiles(_, _, _, _)
CreateNamedFiles(w, dir, files, i) ==
    IF i > Len(files) \/ ~w.ok THEN w
    ELSE CreateNamedFiles(write_if_absent(w, Append(dir, files[i].name), Content("")),
                          dir, files, i + 1)

RECURSIVE any_generate_module(_, _, _, _)
RECURSIVE AnyGenerateModules(_, _, _, _, _)
AnyGenerateModules(w, parent_path, tree, i, git) ==
    IF i > Len(tree) \/ ~w.ok THEN w
    ELSE AnyGenerateModules(any_generate_module(w, parent_path, tree[i], git),
                            parent_path, tree, i + 1, git)

any_generate_module(w, parent_path, module, git) ==
    LET module_path == Append(parent_path, ModuleName(module))
    IN IF ~w.ok THEN w
       ELSE IF module.from # None
       THEN IF exists(w.disk, module_path)
            THEN [w EXCEPT !.log = Append(@, [event |-> "skip", url |-> module.from,
                                              target |-> module_path,
                                              outcome |-> "exists"])]
            ELSE git_clone(w, module.from, module_path, git)
       ELSE AnyGenerateModules(
                CreateNamedFiles(create_dir_all(w, module_path), module_path,
                                 module.file, 1),
                module_path, module.tree, 1, git)

\* generate_project that writes README.md whether or not it exists
any_generate_project_readme_always(w, project_path, project, git) ==
    fs_write(
        AnyGenerateModules(CreateNamedFiles(w, project_path, project.file, 1),
                           project_path, project.tree, 1, git),
        Append(project_path, <<"README", "md">>), Content(""))

any_generate_project(w, project_path, project, git) ==
    write_if_absent(
        AnyGenerateModules(CreateNamedFiles(w, project_path, project.file, 1),
                           project_path, project.tree, 1, git),
        Append(project_path, <<"README", "md">>), Content(""))

(***************************************************************************)
(* Generation (CodeGenerator::generate_from_config): project after project *)
(* the directory build, then the file build; an "any" project's files are  *)
(* built by FileBuilder or by AnyFileHandler.  An I/O error ends the run.  *)
(***************************************************************************)
MaxExisting == 2

UserContent == Content("C")

\* the modules of a tree with their directories below base_path
RECURSIVE ModulePaths(_, _)
ModulePaths(tree, base_path) ==
    UNION { {[path |-> Append(base_path, ModuleName(tree[i])), module |-> tree[i]]}
            \cup ModulePaths(tree[i].tree, Append(base_path, ModuleName(tree[i])))
          : i \in 1..Len(tree) }

ProjectModules(project) == ModulePaths(project.tree, ProjectPath(<<>>, project))

ConfigModules(cfg) == UNION {ProjectModules(cfg.projects[i]) : i \in 1..Len(cfg.projects)}

\* the targets of the clone-target modules
ClonePaths(cfg) == {n.path : n \in {x \in ConfigModules(cfg) : x.module.from # None}}

\* the paths of the files the configuration declares
DeclaredFiles(cfg) ==
    {e.display_path : e \in {x \in Range(collect_all_entries(cfg)) : ~x.is_directory}}

UpRust ==
    Proj(<<"app">>, TRUE, "rust", <<>>,
         <<Mod(Src, <<CodeFile(<<"main">>)>>,
               <<Mod(Domain, <<CodeFile(<<"model">>)>>, <<>>)>>)>>)

UpGo ==
    Proj(<<"api">>, FALSE, "go", <<>>,
         <<Mod(<<"cmd">>, <<CodeFile(<<"main">>)>>, <<>>),
           Mod(<<"pkg">>, <<CodeFile(<<"model">>)>>, <<>>)>>)

UpTypeScript ==
    Proj(<<"web">>, FALSE, "typescript", <<>>,
         <<Mod(Src, <<CodeFile(<<"index">>), CodeFile(<<"app">>)>>, <<>>)>>)

UpAny ==
    Proj(<<"ext">>, TRUE, "any", <<CodeFile(<<"notes", "md">>)>>,
         <<CloneMod(Url), Mod(<<"docs">>, <<CodeFile(<<"guide", "md">>)>>, <<>>)>>)

UpAnyNested ==
    Proj(<<"third">>, FALSE, "any", <<>>,
         <<Mod(<<"deps">>, <<>>, <<CloneMod(Url)>>), Mod(<<"docs">>, <<>>, <<>>)>>)

UpProjects == {UpRust, UpGo, UpTypeScript, UpAny, UpAnyNested}

UpConfigs == {[projects |-> q] : q \in SeqsUpTo(UpProjects, MaxProjects)}

\* what may be on the disk before the run: a declared file with the user's
\* content, the directory of a clone target, a file where a module's
\* directory is to be
Existing(cfg) ==
    {[kind |-> "file", path |-> p] : p \in DeclaredFiles(cfg)}
    \cup {[kind |-> "dir", path |-> p] : p \in ClonePaths(cfg)}
    \cup {[kind |-> "file", path |-> n.path] :
            n \in {x \in ConfigModules(cfg) : x.module.from = None}}

SubsetsUpTo(S, n) == {E \in SUBSET S : Cardinality(E) <= n}

DiskOf(E) ==
    LET files == {e.path : e \in {x \in E : x.kind = "file"}}
        dirs == {e.path : e \in {x \in E : x.kind = "dir"}}
    IN [dirs |-> UNION {Prefixes(p) : p \in dirs} \cup UNION {Prefixes(Front(p)) : p \in files},
        files |-> [p \in files |-> UserContent]]

\* no path is both a file and a directory
Consistent(d) == d.dirs \cap DOMAIN d.files = {}

UpDisks(cfg) == {d \in {DiskOf(E) : E \in SubsetsUpTo(Existing(cfg), MaxExisting)} : Consistent(d)}

InitUp ==
    /\ config \in UpConfigs
    /\ disk \in UpDisks(config)
    /\ prev = disk
    /\ log = <<>>
    /\ pc = "validate"
    /\ op = [kind |-> "up", project |-> 1]
    /\ verdict = None /\ text = None

\* the step's result: a failed step ends the run, the last project's file
\* build completes it
Step(w, to) ==
    /\ disk' = w.disk
    /\ log' = w.log
    /\ pc' = IF w.ok THEN to ELSE "aborted"

AfterFiles(w) ==
    IF w.ok /\ op.project < Len(config.projects)
    THEN /\ Step(w, "structure")
         /\ op' = [op EXCEPT !.project = @ + 1]
    ELSE /\ Step(w, "done")
         /\ op' = op

\* DirectoryBuilder::build_project_structure on the current project
BuildStructure ==
    /\ pc = "structure"
    /\ \E git \in [ClonePaths(config) -> CloneOutcomes] :
         Step(build_project_structure(World(disk, log), <<>>,
                                      config.projects[op.project], git), "files")
    /\ UNCHANGED <<text, prev, op, config, verdict>>

\* FileBuilder::build_project_files on the current project
BuildFiles ==
    /\ pc = "files"
    /\ AfterFiles(build_project_files(World(disk, log), <<>>, config.projects[op.project]))
    /\ UNCHANGED <<text, prev, config, verdict>>

\* AnyFileHandler::generate_project on the current project
AnyGenerate ==
    /\ pc = "files"
    /\ config.projects[op.project].lang = "any"
    /\ \E git \in [ClonePaths(config) -> CloneOutcomes] :
         AfterFiles(any_generate_project(World(disk, log),
                                         ProjectPath(<<>>, config.projects[op.project]),
                                         config.projects[op.project], git))
    /\ UNCHANGED <<text, prev, config, verdict>>

NextUp == Validate \/ BuildStructure \/ BuildFiles \/ AnyGenerate

SpecUp == InitUp /\ [][NextUp]_vars

RootCount(cfg) == Cardinality({i \in 1..Len(cfg.projects) : cfg.projects[i].root})

RootError ==
    \E k \in 1..Len(verdict.errors) : verdict.errors[k].path = <<"projects">>

\* C5: validate fails, with an error located at `projects`, whenever two or more
\* projects are root, and reports no such error when at most one is; after a
\* failed validation the up command has returned: no directory, file or clone
\* of the generation is ever made.
C5_MultipleRootsBlockGeneration ==
    pc # "validate" =>
        /\ RootCount(config) >= 2 => (~verdict.ok /\ RootError)
        /\ RootCount(config) <= 1 => ~RootError
        /\ ~verdict.ok => (pc = "failed" /\ disk = prev /\ log = <<>>)

\* the run of a configuration with two root projects of different names has
\* ended at the validation, the disk as it was
C5_Witness ==
    /\ pc = "failed"
    /\ RootCount(config) = 2
    /\ Len(verdict.errors) = 1
    /\ disk = prev /\ prev # EmptyDisk

\* the declared files that are code files only: not the entry file and the
\* module index the generator keeps a marker block in
ManifestNames == {<<"mod", "rs">>, <<"main", "rs">>, <<"lib", "rs">>, <<"index", "ts">>}

CodeFiles(cfg) == {p \in DeclaredFiles(cfg) : Last(p) \notin ManifestNames}

\* C3: a declared code file that is on the disk before the generation has, at
\* every step of it and at its end, the content it had before.
C3_ProtectionInvariant ==
    \A p \in CodeFiles(config) :
        IsFile(prev, p) => (IsFile(disk, p) /\ disk.files[p] = prev.files[p])

\* the clone-target modules of the current project whose target is on the disk
ExistingTargets ==
    {n \in ProjectModules(config.projects[op.project]) :
        n.module.from # None /\ exists(disk, n.path)}

\* a file stands where a directory of the current project is to be
Obstructed ==
    LET p == config.projects[op.project]
    IN \E q \in {n.path : n \in {x \in ProjectModules(p) : x.module.from = None}}
                \cup {ProjectPath(<<>>, p)} :
          \E r \in Prefixes(q) : IsFile(disk, r)

\* C10: a clone target that is on the disk when a generation step runs is
\* skipped: the step invokes no clone for it, the directory build does not
\* fail for it (it fails only where a file stands in the way of a directory)
\* and, when it has not failed, every other module of the project has its
\* directory.
C10_ExistingCloneSkipped ==
    [][ (pc \in {"structure", "files"} /\ ExistingTargets # {}) =>
          /\ \A n \in ExistingTargets :
                \A k \in (Len(log) + 1)..Len(log') :
                    log'[k].target = n.path => log'[k].event = "skip"
          /\ pc = "structure" =>
                /\ \E k \in (Len(log) + 1)..Len(log') : log'[k].event = "skip"
                /\ pc' = "aborted" => Obstructed
                /\ pc' = "files" =>
                      \A n \in ProjectModules(config.projects[op.project]) :
                          n.module.from = None => IsDir(disk', n.path)
      ]_vars

\* the directory build found the clone target on the disk, invoked no clone and
\* made the directory of the module after it
C10_Witness ==
    /\ pc = "files"
    /\ config.projects[op.project] = UpAny
    /\ IsDir(prev, <<<<"vendor">>>>)
    /\ log = <<[event |-> "skip", url |-> Url, target |-> <<<<"vendor">>>>,
                outcome |-> "exists"]>>
    /\ IsDir(disk, <<<<"docs">>>>) /\ ~IsDir(prev, <<<<"docs">>>>)

(***************************************************************************)
(* Generation of one project drawn from a family of rust and "any"         *)
(* projects: module trees of depth two whose modules declare files with    *)
(* and without an extension, a file named mod, explicit `pub:` settings    *)
(* and, for "any", clone targets.                                          *)
(***************************************************************************)
PubFile(name, pub) == [name |-> name, pub |-> pub]

GenFiles ==
    { <<>>,
      <<CodeFile(<<"main">>)>>,
      <<CodeFile(<<"model">>), CodeFile(<<"notes", "md">>)>>,
      <<CodeFile(<<"mod">>), PubFile(<<"model">>, <<"no">>)>> }

GenLeaves ==
    {Mod(name, files, <<>>) : name \in {Src, Domain}, files \in GenFiles}
    \cup {[Mod(Domain, <<>>, <<>>) EXCEPT !.pub = <<"no">>]}

GenSubtrees ==
    {<<>>} \cup {<<leaf>> : leaf \in GenLeaves}
    \cup {<<Mod(Domain, <<CodeFile(<<"model">>)>>, <<>>), Mod(<<"util">>, <<>>, <<>>)>>}

GenRustProjects ==
    {Proj(<<"app">>, TRUE, "rust", <<>>, <<Mod(name, files, tree)>>) :
        name \in {Src, Domain}, files \in GenFiles, tree \in GenSubtrees}

GenAnySubtrees ==
    {<<>>, <<CloneMod(Url)>>}
    \cup {<<Mod(Domain, files, <<>>)>> : files \in GenFiles \ {<<>>}}

GenAnyProjects ==
    {Proj(<<"ext">>, root, "any", files, tree \o <<Mod(<<"docs">>, docs, sub)>>) :
        root \in BOOLEAN,
        files \in {<<>>, <<CodeFile(<<"LICENSE">>), CodeFile(<<"notes", "md">>)>>},
        tree \in {<<>>, <<CloneMod(Url)>>},
        docs \in GenFiles, sub \in GenAnySubtrees}

GenConfigs == {[projects |-> <<p>>] : p \in GenRustProjects \cup GenAnyProjects}

\* the paths of the files a project names, each under its name as written
NamedFiles(project) ==
    {Append(ProjectPath(<<>>, project), project.file[k].name) : k \in 1..Len(project.file)}
    \cup UNION {{Append(n.path, n.module.file[k].name) : k \in 1..Len(n.module.file)} :
                    n \in ProjectModules(project)}

ReadmePath(project) == Append(ProjectPath(<<>>, project), <<"README", "md">>)

ModRsPath(n) == Append(n.path, <<"mod", "rs">>)

\* what may be on the disk before the run: besides the items of Existing, a
\* named file, a README.md and a mod.rs with the user's content
GenExisting(cfg) ==
    Existing(cfg)
    \cup {[kind |-> "file", path |-> p] :
            p \in NamedFiles(cfg.projects[1]) \cup {ReadmePath(cfg.projects[1])}}
    \cup {[kind |-> "file", path |-> ModRsPath(n)] :
            n \in {x \in ConfigModules(cfg) : x.module.from = None}}

GenDisks(cfg) ==
    {d \in {DiskOf(E) : E \in SubsetsUpTo(GenExisting(cfg), MaxExisting)} : Consistent(d)}

InitGen ==
    /\ config \in GenConfigs
    /\ disk \in GenDisks(config)
    /\ prev = disk
    /\ log = <<>>
    /\ pc = "validate"
    /\ op = [kind |-> "up", project |-> 1]
    /\ verdict = None /\ text = None

SpecGen == InitGen /\ [][NextUp]_vars

GenDoneRust == pc = "done" /\ config.projects[1].lang = "rust"

(***************************************************************************)
(* The module index of a rust project                                      *)
(***************************************************************************)
\* a file whose rust file name ends with .rs and is not mod.rs
RsFile(f) ==
    \/ Len(f.name) = 1 /\ f.name # <<"mod">>
    \/ Len(f.name) >= 2 /\ Last(f.name) = "rs" /\ f.name # <<"mod", "rs">>

DeclaresModRs(m) == \E k \in 1..Len(m.file) : m.file[k].name \in {<<"mod">>, <<"mod", "rs">>}

\* the .rs code files and the child modules of m that bear the name x
Bearers(m, x) ==
    {[file |-> k] : k \in {i \in 1..Len(m.file) : RsFile(m.file[i]) /\ m.file[i].name = x}}
    \cup {[child |-> k] : k \in {i \in 1..Len(m.tree) : ModuleName(m.tree[i]) = x}}

AllDefault(m, x) ==
    /\ \A k \in 1..Len(m.file) : m.file[k].name = x => m.file[k].pub = None
    /\ \A k \in 1..Len(m.tree) : ModuleName(m.tree[k]) = x => m.tree[k].pub = None

BlockNames(m, block) ==
    {block[k].name : k \in 1..Len(block)}
    \cup {m.file[k].name : k \in 1..Len(m.file)}
    \cup {ModuleName(m.tree[k]) : k \in 1..Len(m.tree)}

\* mod.rs of the module at n holds a marker block with one declaration for
\* each .rs code file and each child module, `pub ` where no `pub:` is set
HasModRs(n) ==
    /\ IsFile(disk, ModRsPath(n))
    /\ disk.files[ModRsPath(n)].marked
    /\ \A x \in BlockNames(n.module, disk.files[ModRsPath(n)].block) :
          /\ Cardinality({k \in 1..Len(disk.files[ModRsPath(n)].block) :
                            disk.files[ModRsPath(n)].block[k].name = x})
               = Cardinality(Bearers(n.module, x))
          /\ AllDefault(n.module, x) =>
                \A k \in 1..Len(disk.files[ModRsPath(n)].block) :
                    disk.files[ModRsPath(n)].block[k].name = x
                        => disk.files[ModRsPath(n)].block[k].prefix = "pub "

Created(p) == IsFile(disk, p) /\ ~IsFile(prev, p)

RustRun == pc # "validate" /\ config.projects[1].lang = "rust"

Edited == op.kind \in {"add", "remove"} /\ op.ok

\* C12: the text returned by remove_entry and by add_entry ends with a
\* newline exactly when the text it was given ends with a newline.
C12_TrailingNewline == Edited => (text.nl <=> prev.nl)

Removed == op.kind = "remove" /\ op.ok

\* the lines of L whose index is not in D, in their order
RECURSIVE Without(_, _)
Without(L, D) ==
    IF L = <<>> THEN <<>>
    ELSE Without(Front(L), D) \o (IF Len(L) \in D THEN <<>> ELSE <<Last(L)>>)

\* the deletion span of the entry whose `- name:` line is a: a module with its
\* whole block, a file with its attribute lines
SpanOf(L, a, m) ==
    IF m.is_directory THEN a..BlockEnd(L, a)
    ELSE a..match_file_entry(L, a, m.file_name, L[a].ind)

SectionKey(l) == IsKey(l, "tree") \/ IsKey(l, "file")

\* the lines beneath a section key, of whatever kind
ChildLines(L, k) == {i \in Block(L, k) : ~IsEmptyLine(L[i])}

\* the section keys outside S whose child lines all lie in S
Emptied(L, S) ==
    {k \in (1..Len(L)) \ S :
        SectionKey(L[k]) /\ ChildLines(L, k) # {} /\ ChildLines(L, k) \subseteq S}

\* C13: the text returned by remove_entry is the input line sequence without
\* the deletion span of one entry that bears the target's name and without the
\* section keys that this removal left childless; every other line is kept,
\* unchanged and in order, and the final newline is the input's.
C13_MinimalChange ==
    Removed =>
        \E a \in {i \in 1..Len(prev.lines) : IsNameLine(prev.lines[i], op.req.file_name)} :
            text.lines = Without(prev.lines,
                                 SpanOf(prev.lines, a, op.req)
                                 \cup Emptied(prev.lines, SpanOf(prev.lines, a, op.req)))

(***************************************************************************)
(* The files of an "any" project                                           *)
(***************************************************************************)
AnyProject == config.projects[op.project]

OnAbsent == op.kind \in {"remove_absent", "add_absent"}

\* C15: remove_entry for an entry that is not in the text, and add_entry for a
\* project that is not in the text, return an error and no text; the error of
\* remove_entry names the target or a module of its path.
C15_FailsClosed ==
    OnAbsent =>
        /\ ~op.ok /\ text = prev
        /\ op.kind = "remove_absent" =>
              remove_entry(prev, op.req).err.name
                  \in {op.req.file_name} \cup Range(op.req.module_path)

(***************************************************************************)
(* The order of the collected entries                                      *)
(***************************************************************************)
\* A node of the configuration with its place: the place of a project is its
\* index, a file of a node is placed below it at <<0, k>>, a child module at
\* <<1, c>>, so that files come before child modules.
Node(place, m) ==
    [place |-> place,
     entry |-> [project_index |-> m[1], module_path |-> m[2], file_name |-> m[3],
                is_directory |-> m[4], is_project_level |-> m[5]]]

RECURSIVE TreeNodes(_, _, _, _)
TreeNodes(tree, place, p, parents) ==
    UNION {
        {Node(Append(place, <<1, c>>), <<p, parents, ModuleName(tree[c]), TRUE, FALSE>>)}
        \cup {Node(Append(place, <<1, c>>) \o << <<0, k>> >>,
                   <<p, Append(parents, ModuleName(tree[c])), tree[c].file[k].name,
                     FALSE, FALSE>>) : k \in 1..Len(tree[c].file)}
        \cup TreeNodes(tree[c].tree, Append(place, <<1, c>>), p,
                       Append(parents, ModuleName(tree[c])))
        : c \in 1..Len(tree)}

ConfigNodes(cfg) ==
    UNION {
        {Node(<< <<0, p>>, <<0, k>> >>,
              <<p - 1, <<>>, cfg.projects[p].file[k].name, FALSE, TRUE>>) :
            k \in 1..Len(cfg.projects[p].file)}
        \cup TreeNodes(cfg.projects[p].tree, << <<0, p>> >>, p - 1, <<>>)
        : p \in 1..Len(cfg.projects)}

StepLess(x, y) == x[1] < y[1] \/ (x[1] = y[1] /\ x[2] < y[2])

\* place a is before place b: a node is before everything below it, and
\* otherwise the first step that differs decides
Before(a, b) ==
    \E i \in 1..(Len(a) + 1) :
        /\ i <= Len(b) /\ SubSeq(a, 1, i - 1) = SubSeq(b, 1, i - 1)
        /\ i = Len(a) + 1 \/ StepLess(a[i], b[i])

EntryOf(e) ==
    [project_index |-> e.project_index, module_path |-> e.module_path,
     file_name |-> e.file_name, is_directory |-> e.is_directory,
     is_project_level |-> e.is_project_level]

\* C16: collect_all_entries lists the nodes of the configuration in this
\* order: projects in spec order; in a project its top-level files first
\* (empty module_path, is_project_level), then the tree in pre-order, each
\* module with its directory entry, then its files in order, then its child
\* modules: the i-th entry is the node that has i - 1 nodes before it.
C16_CollectionOrder ==
    pc = "collected" =>
        LET nodes == ConfigNodes(config)
        IN /\ Len(log) = Cardinality(nodes)
           /\ \A i \in 1..Len(log) :
                 \E n \in nodes :
                     /\ n.entry = EntryOf(log[i])
                     /\ Cardinality({o \in nodes : Before(o.place, n.place)}) = i - 1

\* two projects; the second lists two top-level files and then a module with
\* two files and a child module: all seven entries in the order of the claim
C16_Witness ==
    /\ pc = "collected" /\ Len(config.projects) = 2 /\ Len(log) >= 7
    /\ log[1].project_index = 0
    /\ \E i \in 2..(Len(log) - 5) :
         /\ log[i - 1].project_index = 0
         /\ log[i].project_index = 1 /\ log[i].is_project_level
         /\ log[i + 1].is_project_level /\ log[i + 1].file_name = <<"build">>
         /\ log[i + 2].is_directory /\ log[i + 2].module_path = <<>>
         /\ ~log[i + 3].is_directory /\ log[i + 3].file_name = <<"model">>
         /\ ~log[i + 4].is_directory /\ log[i + 4].file_name = <<"repository">>
         /\ log[i + 4].module_path = <<log[i + 2].file_name>>
         /\ log[i + 5].is_directory /\ log[i + 5].module_path = <<log[i + 2].file_name>>

\* the section keys of L that bear the line v and have no line beneath them
ChildlessKeys(L, v) ==
    {k \in 1..Len(L) : L[k] = v /\ SectionKey(L[k]) /\ ChildLines(L, k) = {}}

\* C17: the text returned by remove_entry holds no childless `file:` or
\* `tree:` key that the input did not hold: of each key line, it holds no more
\* childless occurrences than the input.
C17_NoChildlessKeyLeft ==
    Removed =>
        \A v \in Range(text.lines) :
            Cardinality(ChildlessKeys(text.lines, v))
                <= Cardinality(ChildlessKeys(prev.lines, v))

RemovedFile == Removed /\ ~op.req.is_directory

\* an attribute line of the entry at a: not empty, deeper than a, no entry
AttributeOf(L, a, j) == ~IsEmptyLine(L[j]) /\ L[j].ind > L[a].ind /\ ~StartsName(L[j])

\* the entry at a with the attribute lines that follow it immediately
EntrySpan(L, a) ==
    a..Max({e \in a..Len(L) : \A j \in (a + 1)..e : AttributeOf(L, a, j)})

\* C18: remove_entry for a file deletes one `- name: F` line together with the
\* attribute lines that follow it immediately, up to the next entry, empty
\* line or dedent; but for `file:` keys, every other line of the text, the
\* sibling entries and their attributes among them, is left in place.
C18_FileSpan ==
    RemovedFile =>
        \E a \in {i \in 1..Len(prev.lines) : IsNameLine(prev.lines[i], op.req.file_name)} :
            \E keys \in SUBSET {k \in 1..Len(prev.lines) : IsKey(prev.lines[k], "file")} :
                text.lines = Without(prev.lines, EntrySpan(prev.lines, a) \cup keys)

\* main, with its `pub: no` line, removed from the files main and model of src
C18_Witness ==
    /\ RemovedFile /\ prev.lines = DocGap
    /\ op.req.file_name = <<"main">>
    /\ text.lines = Without(DocGap, {6, 7})
    /\ text.lines[6] = N(8, "model")

\* the entry named `name` of the `file:` section of the node at line a
FileEntry(L, a, name) ==
    IF a = 0 \/ KeyOf(L, a, "file") = 0 THEN 0
    ELSE First({j \in Block(L, KeyOf(L, a, "file")) :
                  L[j].ind = L[a].ind + 4 /\ IsNameLine(L[j], name)})

\* the line of the entry that m denotes: module_path walked level by level,
\* as tree children, from the line of project m.project_index
DenotedLine(L, m) ==
    IF m.is_directory
    THEN Anchor(L, m.project_index, Append(m.module_path, m.file_name))
    ELSE IF m.module_path = <<>>
    THEN FileEntry(L, ProjectLine(L, m.project_index), m.file_name)
    ELSE FileEntry(L, Anchor(L, m.project_index, m.module_path), m.file_name)

\* C19: remove_entry(text, m) deletes the entry that m denotes: but for empty
\* lines and section keys, the result is the input without the span of the
\* entry reached by walking m.module_path level by level, as tree children,
\* inside project m.project_index.
C19_DenotedEntryRemoved ==
    Removed =>
        /\ DenotedLine(prev.lines, op.req) # 0
        /\ \E keys \in SUBSET {k \in 1..Len(prev.lines) : SectionKey(prev.lines[k])} :
              NonBlank(text.lines) =
                  NonBlank(Without(prev.lines,
                                   SpanOf(prev.lines, DenotedLine(prev.lines, op.req), op.req)
                                   \cup keys))

(***************************************************************************)
(* Where add_entry puts a new entry                                        *)
(***************************************************************************)
\* the line of the node that is to hold the new entry: the project for a
\* one-segment path, the module that the path's front denotes otherwise
ParentLine(L, r) ==
    IF Len(r.path_segments) = 1 THEN ProjectLine(L, r.project_index)
    ELSE Anchor(L, r.project_index, Front(r.path_segments))

\* the entries of the section whose key is at line k
SectionEntries(L, k) ==
    {j \in Block(L, k) : L[j].ind = L[k].ind + 2 /\ (StartsName(L[j]) \/ IsKey(L[j], "from"))}

\* an add of one entry below a node of the text that changed the text
InsertedOne ==
    /\ AddedOk /\ text # prev /\ op.req.children = <<>>
    /\ ParentLine(prev.lines, op.req) # 0

NewModule ==
    /\ InsertedOne /\ op.req.is_directory
    /\ KeyOf(prev.lines, ParentLine(prev.lines, op.req), "tree") # 0
    /\ SectionEntries(prev.lines,
                      KeyOf(prev.lines, ParentLine(prev.lines, op.req), "tree")) # {}

NewFile ==
    /\ InsertedOne /\ ~op.req.is_directory
    /\ KeyOf(prev.lines, ParentLine(prev.lines, op.req), "file") # 0
    /\ SectionEntries(prev.lines,
                      KeyOf(prev.lines, ParentLine(prev.lines, op.req), "file")) # {}

\* L with the entry `- name: name` put after the block of the last entry of
\* the section whose key is at line k
AfterLastEntry(L, k, name) ==
    InsertAt(L, BlockEnd(L, Max(SectionEntries(L, k))), <<Ln(L[k].ind + 2, "name", name)>>)

\* C20: a new module is put in the `tree:` section of its parent (the project
\* for a top-level module), immediately after the whole block of the last
\* entry of that section, and a new file after the last entry of the `file:`
\* section of its module or project; empty lines apart, no other line changes.
C20_AppendedAfterLast ==
    /\ NewModule =>
          NonBlank(text.lines) =
              NonBlank(AfterLastEntry(prev.lines,
                           KeyOf(prev.lines, ParentLine(prev.lines, op.req), "tree"),
                           Last(op.req.path_segments)))
    /\ NewFile =>
          NonBlank(text.lines) =
              NonBlank(AfterLastEntry(prev.lines,
                           KeyOf(prev.lines, ParentLine(prev.lines, op.req), "file"),
                           TargetOf(op.req).file_name))

(***************************************************************************)
(* A directory added with its children                                     *)
(***************************************************************************)
\* the entries that a list of children names below the module at `path`
RECURSIVE ChildTargets(_, _, _, _)
ChildTargets(p, path, children, language) ==
    UNION {
        IF children[k].is_directory
        THEN {[project_index |-> p, file_name |-> children[k].name, module_path |-> path,
               is_project_level |-> FALSE, is_directory |-> TRUE]}
             \cup ChildTargets(p, Append(path, children[k].name), children[k].children,
                               language)
        ELSE {[project_index |-> p,
               file_name |-> filename_without_standard_extension(children[k].name, language),
               module_path |-> path,
               is_project_level |-> FALSE, is_directory |-> FALSE]}
        : k \in 1..Len(children)}

AddedWithChildren == AddedOk /\ op.req.is_directory /\ op.req.children # <<>>

\* C21: after add_entry for a directory with a list of children the text
\* holds the directory as a module of its project, at its path, and every
\* listed child, file or sub-directory, beneath it at its depth.
C21_DirectoryWithChildren ==
    AddedWithChildren =>
        \A t \in {TargetOf(op.req)}
                 \cup ChildTargets(op.req.project_index, op.req.path_segments,
                                   op.req.children, op.req.language) :
            \E e \in ManagedSet(text) : SameEntry(e, t)

(***************************************************************************)
(* Failing open for clones, failing closed for the file system.            *)
(***************************************************************************)
\* the events the step has added
NewEvents == {log'[k] : k \in (Len(log) + 1)..Len(log')}

\* a clone that exited non-zero or could not be launched
FailedClone(e) == e.event = "clone" /\ e.outcome \in {"exit", "launch"}

\* the error of a directory creation where a file stands in the way
IoError(e) == e.event = "error" /\ \E q \in Prefixes(e.target) : IsFile(disk, q)

\* the top-level modules of the current project after the one whose walk failed at p
Remaining(p) ==
    LET project == config.projects[op.project]
        top(i) == Append(ProjectPath(<<>>, project), ModuleName(project.tree[i]))
    IN {top(j) : j \in {j \in 1..Len(project.tree) :
                          \E i \in 1..(j - 1) : IsPrefix(top(i), p)}}

\* what was on the disk is on the disk
Kept == /\ disk.dirs \subseteq disk'.dirs
        /\ \A f \in DOMAIN disk.files : IsFile(disk', f) /\ disk'.files[f] = disk.files[f]

C22_WitnessAbort ==
    /\ pc = "aborted"
    /\ log # <<>>
    /\ log[Len(log)].event = "error"
    /\ \E q \in Prefixes(log[Len(log)].target) : IsFile(disk, q)

(***************************************************************************)
(* Project manifests of the Go and Python generators, and repeated runs of *)
(* the generation over the same disk.                                      *)
(***************************************************************************)
MaxRuns == 2

\* go.mod written at every run
generate_go_mod_always(w, project_path, project_name) ==
    fs_write(w, Append(project_path, <<"go", "mod">>),
             [Content("module {}\n\ngo 1.21\n") EXCEPT !.arg = project_name])

generate_go_mod(w, project_path, project_name) ==
    write_if_absent(w, Append(project_path, <<"go", "mod">>),
                    [Content("module {}\n\ngo 1.21\n") EXCEPT !.arg = project_name])

generate_go_sum(w, project_path) ==
    write_if_absent(w, Append(project_path, <<"go", "sum">>), Content(""))

generate_requirements_txt(w, project_path) ==
    write_if_absent(w, Append(project_path, <<"requirements", "txt">>),
                    Content("# Add your Python dependencies here\n"))

generate_setup_py(w, project_path, project_name) ==
    write_if_absent(w, Append(project_path, <<"setup", "py">>),
                    [Content("from setuptools import setup, find_packages\n\nsetup(name=\"{}\", ..)\n")
                        EXCEPT !.arg = project_name])

generate_main_go(w, project_path) ==
    write_if_absent(w, Append(project_path, <<"main", "go">>),
                    Content("package main\n\nimport \"fmt\"\n\nfunc main() { .. }\n"))

\* a file named main or main.go among the files of the module or of a module below it
RECURSIVE find_main_in_module(_)
find_main_in_module(module) ==
    \/ \E k \in 1..Len(module.file) :
          module.file[k].name = <<"main">>
          \/ filename_with_extension(module.file[k], "go") = <<"main", "go">>
    \/ \E m \in 1..Len(module.tree) : find_main_in_module(module.tree[m])

should_generate_main_go(project) ==
    /\ ~\E k \in 1..Len(project.file) :
           project.file[k].name = <<"main">>
           \/ filename_with_extension(project.file[k], "go") = <<"main", "go">>
    /\ ~\E m \in 1..Len(project.tree) : find_main_in_module(project.tree[m])

\* the manifests and the entry file of a project of a language with a package
\* generator
project_manifests(w, project_path, project) ==
    CASE project.lang = "go" ->
            IF should_generate_main_go(project)
            THEN generate_main_go(generate_go_sum(generate_go_mod(w, project_path, project.name),
                                                  project_path),
                                  project_path)
            ELSE generate_go_sum(generate_go_mod(w, project_path, project.name), project_path)
      [] project.lang = "python" ->
            generate_setup_py(generate_requirements_txt(w, project_path),
                              project_path, project.name)
      [] OTHER -> w

\* the names of the manifests of a language
Tier3Names(lang) ==
    CASE lang = "go" -> {<<"go", "mod">>, <<"go", "sum">>}
      [] lang = "python" -> {<<"requirements", "txt">>, <<"setup", "py">>}
      [] lang = "typescript" -> {<<"package", "json">>, <<"tsconfig", "json">>}
      [] OTHER -> {}

ManifestPaths(cfg) ==
    UNION { {Append(ProjectPath(<<>>, cfg.projects[i]), n) : n \in Tier3Names(cfg.projects[i].lang)}
          : i \in 1..Len(cfg.projects) }

UpPython ==
    Proj(<<"svc">>, FALSE, "python", <<>>,
         <<Mod(<<"core">>, <<CodeFile(<<"model">>)>>, <<>>)>>)

UpGoRoot ==
    Proj(<<"tool">>, TRUE, "go", <<>>, <<Mod(<<"pkg">>, <<CodeFile(<<"model">>)>>, <<>>)>>)

ManifestProjects == {UpGo, UpGoRoot, UpPython, UpTypeScript}

ManifestConfigs == {[projects |-> q] : q \in SeqsUpTo(ManifestProjects, MaxProjects) \ {<<>>}}

\* what may be on the disk before the first run: manifests and declared files
\* with the user's content
ManifestDisks(cfg) ==
    {DiskOf(E) : E \in SubsetsUpTo({[kind |-> "file", path |-> p] :
                                      p \in ManifestPaths(cfg) \cup DeclaredFiles(cfg)},
                                   MaxExisting)}

InitManifest ==
    /\ config \in ManifestConfigs
    /\ disk \in ManifestDisks(config)
    /\ prev = disk
    /\ log = <<>>
    /\ pc = "structure"
    /\ op = [kind |-> "up", project |-> 1, run |-> 1]
    /\ verdict = None /\ text = None

\* the manifests of the current Go or Python project
ProjectManifests ==
    /\ pc = "files"
    /\ config.projects[op.project].lang \in {"go", "python"}
    /\ AfterFiles(project_manifests(World(disk, log),
                                    ProjectPath(<<>>, config.projects[op.project]),
                                    config.projects[op.project]))
    /\ UNCHANGED <<text, prev, config, verdict>>

\* the generation is run again over what the last run left
Rerun ==
    /\ pc = "done"
    /\ op.run < MaxRuns
    /\ pc' = "structure"
    /\ op' = [op EXCEPT !.project = 1, !.run = @ + 1]
    /\ UNCHANGED <<text, prev, config, verdict, disk, log>>

NextManifest == BuildStructure \/ BuildFiles \/ ProjectManifests \/ Rerun

SpecManifest == InitManifest /\ [][NextManifest]_vars

\* C23: the project manifests (go.mod, go.sum, package.json, tsconfig.json,
\* requirements.txt, setup.py) are written only when absent: no step of any
\* run changes a manifest that is on the disk, so a manifest that was there
\* before the first run has the content it had then after every run.
C23_ManifestsWrittenOnce ==
    [][ \A p \in ManifestPaths(config) :
          /\ IsFile(disk, p) => (IsFile(disk', p) /\ disk'.files[p] = disk.files[p])
          /\ IsFile(prev, p) => (IsFile(disk', p) /\ disk'.files[p] = prev.files[p])
      ]_vars

\* after the last run one manifest of a project still has the user's content
\* and the other one, absent before, has been created
C23_Witness ==
    /\ pc = "done" /\ op.run = MaxRuns
    /\ \E i \in 1..Len(config.projects) :
         \E m, n \in Tier3Names(config.projects[i].lang) :
            /\ IsFile(prev, Append(ProjectPath(<<>>, config.projects[i]), m))
            /\ disk.files[Append(ProjectPath(<<>>, config.projects[i]), m)] = UserContent
            /\ ~IsFile(prev, Append(ProjectPath(<<>>, config.projects[i]), n))
            /\ IsFile(disk, Append(ProjectPath(<<>>, config.projects[i]), n))

(***************************************************************************)
(* The entry file of a project.                                            *)
(***************************************************************************)
\* the path of the entry files of a project: src/main.rs and src/lib.rs of a
\* Rust project, main.go in the root of a Go project
EntryFiles(project) ==
    CASE project.lang = "rust" ->
            {ProjectPath(<<>>, project) \o <<Src, <<"main", "rs">> >>,
             ProjectPath(<<>>, project) \o <<Src, <<"lib", "rs">> >>}
      [] project.lang = "go" -> {Append(ProjectPath(<<>>, project), <<"main", "go">>)}
      [] OTHER -> {}

\* the configuration names a file for the role of the entry file at p
EntryDeclared(project, p) ==
    CASE project.lang = "rust" -> HasEntryFile(project, Last(p)[1])
      [] project.lang = "go" ->
            \/ \E k \in 1..Len(project.file) :
                  project.file[k].name = <<"main">>
                  \/ filename_with_extension(project.file[k], "go") = <<"main", "go">>
            \/ \E m \in 1..Len(project.tree) : find_main_in_module(project.tree[m])
      [] OTHER -> FALSE

\* C24: the entry file of a project (src/main.rs or src/lib.rs of a Rust
\* project, main.go of a Go project) is on the disk after generation only if
\* it was there before or the configuration names a file for that role: when
\* none is declared, no entry file is created.
C24_EntryOnlyIfDeclared ==
    \A i \in 1..Len(config.projects) :
        \A p \in EntryFiles(config.projects[i]) :
            (IsFile(disk, p) /\ ~IsFile(prev, p)) => EntryDeclared(config.projects[i], p)

(***************************************************************************)
(* The fields of a ManagedFile.                                            *)
(***************************************************************************)
\* the modules reached from a tree by the chain of names
RECURSIVE ModulesAt(_, _)
ModulesAt(tree, chain) ==
    IF chain = <<>> THEN {}
    ELSE UNION { IF ModuleName(tree[m]) # Head(chain) THEN {}
                 ELSE IF Len(chain) = 1 THEN {tree[m]}
                 ELSE ModulesAt(tree[m].tree, Tail(chain))
               : m \in 1..Len(tree) }

\* the entry's own name as its display path ends with it
OwnName(e, language) ==
    IF e.is_directory \/ Len(e.file_name) >= 2 THEN e.file_name
    ELSE Append(e.file_name, LanguageExt(language))

\* the entry's fields agree with its place in the project
ConsistentFields(e, project) ==
    /\ e.display_path = (IF project.root THEN <<>> ELSE <<project.name>>)
                        \o e.module_path \o <<OwnName(e, project.lang)>>
    /\ e.is_project_level <=> (~e.is_directory /\ e.module_path = <<>>)
    /\ e.is_project_level =>
          \E k \in 1..Len(project.file) : project.file[k].name = e.file_name
    /\ (~e.is_directory /\ ~e.is_project_level) =>
          \E m \in ModulesAt(project.tree, e.module_path) :
              \E k \in 1..Len(m.file) : m.file[k].name = e.file_name
    /\ e.is_directory =>
          \E m \in ModulesAt(project.tree, Append(e.module_path, e.file_name)) : TRUE

\* C25: the fields of every collected entry are consistent: its display path
\* is the project's name (nothing for a root project), then the chain of
\* module names from the project root, then the entry's own name (a file's
\* name with the language extension unless it holds a '.', a directory's name);
\* a file's module_path is the chain down to the module that lists it, a
\* directory's module_path is the chain of its parents only.
C25_ManagedFileFields ==
    pc = "collected" =>
        \A i \in 1..Len(log) :
            /\ log[i].project_index + 1 \in 1..Len(config.projects)
            /\ ConsistentFields(log[i], config.projects[log[i].project_index + 1])

\* a named project with a file of a nested module and the nested directory
C25_Witness ==
    /\ pc = "collected"
    /\ \E i, j \in 1..Len(log) :
         /\ ~config.projects[log[i].project_index + 1].root
         /\ ~log[i].is_directory /\ Len(log[i].module_path) = 2 /\ Len(log[i].display_path) = 4
         /\ log[j].is_directory /\ Len(log[j].module_path) = 1 /\ Len(log[j].display_path) = 3
         /\ log[j].project_index = log[i].project_index

(***************************************************************************)
(* sync: the entries of the text that are missing on the disk are removed  *)
(* in one batch.                                                           *)
(***************************************************************************)
\* the sub-sequence of s of the elements at the indices of I
RECURSIVE Pick(_, _)
Pick(s, I) == IF I = {} THEN <<>> ELSE Append(Pick(s, I \ {Max(I)}), s[Max(I)])

\* e.display_path != dir && e.display_path.starts_with(dir), dir ending in '/'
StartsWithDir(e, d) ==
    /\ IsPrefix(d.display_path, e.display_path)
    /\ IF e.is_directory THEN e.display_path # d.display_path
       ELSE Len(e.display_path) > Len(d.display_path)

filter_redundant_removals(entries) ==
    Pick(entries, {i \in 1..Len(entries) :
                     ~\E j \in 1..Len(entries) :
                         entries[j].is_directory /\ StartsWithDir(entries[i], entries[j])})

\* the removals applied one after the other to the evolving text (`?` returns
\* at the first error)
RECURSIVE RemoveAll(_, _)
RemoveAll(t, batch) ==
    LET Then(res) == IF res.ok THEN RemoveAll(res.text, Tail(batch)) ELSE res
    IN IF batch = <<>> THEN Ok(t) ELSE Then(remove_entry(t, Head(batch)))

\* what may be missing on the disk: a set of paths of collected entries that
\* holds, with a path, every collected path below it
MissingPaths(entries) ==
    {M \in SUBSET {entries[i].display_path : i \in 1..Len(entries)} :
        /\ M # {}
        /\ \A i \in 1..Len(entries) :
              (\E p \in M : IsPrefix(p, entries[i].display_path))
                  => entries[i].display_path \in M}

\* sync: the removal batch of a validated text
SyncRemovals ==
    /\ pc = "edit" /\ op.n < MaxOps
    /\ \E cfg \in {Parse(text)} :
         /\ cfg.ok /\ validate(cfg).ok
         /\ \E entries \in {collect_all_entries(cfg)} :
              \E M \in MissingPaths(entries) :
                 \E missing \in {Pick(entries, {i \in 1..Len(entries) : entries[i].display_path \in M})} :
                    \E res \in {RemoveAll(text, filter_redundant_removals(missing))} :
                       /\ op' = [kind |-> "sync", n |-> op.n + 1, req |-> missing,
                                 ok |-> res.ok]
                       /\ prev' = text
                       /\ text' = IF res.ok THEN res.text ELSE text
    /\ UNCHANGED <<config, verdict, disk, log, pc>>

NextSync == SyncRemovals

SpecSync == InitEdit /\ [][NextSync]_vars

\* C26: in sync the entries under a directory that is itself removed are
\* dropped from the batch, every remaining removal succeeds on the evolving
\* text, and after the batch the ManagedPath list of the text holds no entry
\* that was detected as missing on the disk.
C26_SyncRemovesMissing ==
    op.kind = "sync" =>
        /\ \A i, j \in 1..Len(filter_redundant_removals(op.req)) :
              ~( /\ filter_redundant_removals(op.req)[j].is_directory
                 /\ StartsWithDir(filter_redundant_removals(op.req)[i],
                                  filter_redundant_removals(op.req)[j]) )
        /\ op.ok
        /\ \A e \in ManagedSet(text) : \A k \in 1..Len(op.req) : e # op.req[k]

(***************************************************************************)
(* What add_entry leaves alone.                                            *)
(***************************************************************************)
\* s is t with some elements left out
RECURSIVE IsSubseq(_, _)
IsSubseq(s, t) ==
    IF s = <<>> THEN TRUE
    ELSE IF t = <<>> THEN FALSE
    ELSE IF Head(s) = Head(t) THEN IsSubseq(Tail(s), Tail(t))
    ELSE IsSubseq(s, Tail(t))

\* the non-blank lines of the block of project q (0-based)
ProjectBlock(L, q) ==
    IF ProjectLine(L, q) = 0 THEN <<>>
    ELSE NonBlank(SubSeq(L, ProjectLine(L, q), find_project_end(L, q)))

\* the number of projects of the text
ProjectCount(L) == Cardinality({i \in 1..Len(L) : StartsName(L[i]) /\ L[i].ind = 0})

\* C27: add_entry with project_index p changes the text only by inserting
\* lines inside the block of project p: every line of the input is in the
\* output, unchanged and in the same order, and the lines and the ManagedPath
\* entries of every other project are those of the input.
C27_OtherProjectsUntouched ==
    AddedOk =>
        /\ IsSubseq(prev.lines, text.lines)
        /\ ProjectCount(text.lines) = ProjectCount(prev.lines)
        /\ \A q \in 0..(ProjectCount(prev.lines) - 1) :
              q # op.req.project_index =>
                 /\ ProjectBlock(text.lines, q) = ProjectBlock(prev.lines, q)
                 /\ {e \in ManagedSet(text) : e.project_index = q}
                       = {e \in ManagedSet(prev) : e.project_index = q}

(***************************************************************************)
(* Removal of every collected entry.                                       *)
(***************************************************************************)
\* e is the entry m or, for a directory m, an entry of a module at or below it
Below(m, e) ==
    \/ e = m
    \/ /\ m.is_directory /\ e.project_index = m.project_index
       /\ IsPrefix(Append(m.module_path, m.file_name), e.module_path)

\* C28: remove_entry succeeds for every entry collected from the parsed text
\* (project-level files, top-level and nested modules, files of modules,
\* clone-target modules), and the ManagedPath set of its result is the set of
\* the input without that entry and the entries below it.
C28_RemoveEveryCollected ==
    op.kind = "remove" =>
        /\ op.ok
        /\ ManagedSet(text) = {e \in ManagedSet(prev) : ~Below(op.req, e)}

(***************************************************************************)
(* A file name from the disk into the specification and back: load / sync  *)
(* store the name without the language's standard extension, the collector *)
(* and the generators append the language's extension to a stored name.    *)
(***************************************************************************)
MaxParts == 2

\* the '.'-separated parts of the file names on the disk
NameParts == {"main", "Makefile", "test", "rs", "go", "py", "ts", "js", "tsx", "md"}

DiskNames == SeqsUpTo(NameParts, MaxParts) \ {<<>>}

Languages == {"rust", "go", "python", "typescript", "javascript", "markdown", "any"}

InitNames ==
    /\ op \in [f : DiskNames, language : Languages]
    /\ pc = "scanned"
    /\ text = None /\ prev = None /\ config = None /\ verdict = None
    /\ disk = None /\ log = None

\* add_entry: the name the file is stored under
StoreName ==
    /\ pc = "scanned"
    /\ text' = filename_without_standard_extension(op.f, op.language)
    /\ pc' = "stored"
    /\ UNCHANGED <<prev, op, config, verdict, disk, log>>

\* the collector and the generators: the file name of the stored entry
FileNameOfEntry ==
    /\ pc = "stored"
    /\ disk' = filename_with_extension(CodeFile(text), op.language)
    /\ pc' = "named"
    /\ UNCHANGED <<text, prev, op, config, verdict, log>>

NextNames == StoreName \/ FileNameOfEntry

SpecNames == InitNames /\ [][NextNames]_vars

\* C29: stripping and appending the extension are inverse on file names: for
\* every file name f on the disk and every project language L, the name stored
\* for f, with the extension of L appended as the collector and the generators
\* do, is f again.
C29_ExtensionRoundTrip == pc = "named" => disk = op.f

(***************************************************************************)
(* Where the added file is in the parsed result.                           *)
(***************************************************************************)
AddedFile == AddedOk /\ ~op.req.is_directory

\* the directory entry of project p for the module chain
ChainEntry(t, p, chain) ==
    {e \in ManagedSet(t) :
        /\ e.is_directory /\ e.project_index = p
        /\ Append(e.module_path, e.file_name) = chain}

\* C30: after a successful add_entry(T, p, [s1..sn, f], file) the parsed result
\* has in project p the module chain s1/../sn, each module a tree child of the
\* one before it, and f among the files of sn (of the project when n = 0); an
\* entry of the same name elsewhere in the text does not make the add a no-op.
C30_FileUnderItsChain ==
    AddedFile =>
        /\ \A k \in 1..(Len(op.req.path_segments) - 1) :
              ChainEntry(text, op.req.project_index, SubSeq(op.req.path_segments, 1, k)) # {}
        /\ Targets(text, op.req) # {}
        /\ Targets(prev, op.req) = {} => text # prev

====
